---- MODULE Spec2Model ----
(***************************************************************************)
(* Model of mpr-cli's PKGBUILD variable model (pkgbuild.go): the document   *)
(* cache, the shell variable extraction through pkgbuild-var-printer.sh,    *)
(* the in-place patcher updateVar, the architecture merge and the source    *)
(* specification parser.                                                    *)
(*                                                                          *)
(* A Go string is a sequence of one-character strings.  Positions are Go's  *)
(* 0-based byte offsets: At(s, i) is s[i] and Slice(s, i, j) is s[i:j].     *)
(***************************************************************************)
EXTENDS Integers, Sequences, FiniteSets, TLC

NL == "\n"
SP == " "
SQ == "'"
DQ == "\""
BS == "\\"
EQ == "="
LP == "("
RP == ")"

\* ------------------------------------------------------------------------
\* Go string primitives (package strings, path/filepath, unicode)
\* ------------------------------------------------------------------------

At(s, i) == s[i + 1]

Slice(s, i, j) == SubSeq(s, i + 1, j)

SliceFrom(s, i) == SubSeq(s, i + 1, Len(s))

HasPrefixAt(s, sub, i) ==
    /\ i + Len(sub) <= Len(s)
    /\ \A k \in 1..Len(sub) : s[i + k] = sub[k]

\* strings.Index: offset of the first occurrence of sub in s, or -1
Index(s, sub) ==
    LET hits == {i \in 0..Len(s) : HasPrefixAt(s, sub, i)}
    IN  IF hits = {} THEN -1 ELSE CHOOSE i \in hits : \A j \in hits : i <= j

Contains(s, sub) == Index(s, sub) # -1

\* unicode.IsSpace restricted to the characters of the model
IsSpace(c) == c \in {SP, NL}

\* strings.IndexFunc(s, unicode.IsSpace)
IndexSpace(s) ==
    LET hits == {i \in 0..(Len(s) - 1) : IsSpace(At(s, i))}
    IN  IF hits = {} THEN -1 ELSE CHOOSE i \in hits : \A j \in hits : i <= j

HasSuffix(s, suf) ==
    /\ Len(suf) <= Len(s)
    /\ SliceFrom(s, Len(s) - Len(suf)) = suf

TrimSuffix(s, suf) ==
    IF HasSuffix(s, suf) THEN Slice(s, 0, Len(s) - Len(suf)) ELSE s

RECURSIVE TrimLeft(_)
TrimLeft(s) ==
    IF s # <<>> /\ IsSpace(Head(s)) THEN TrimLeft(Tail(s)) ELSE s

RECURSIVE TrimRight(_)
TrimRight(s) ==
    IF s # <<>> /\ IsSpace(s[Len(s)])
    THEN TrimRight(SubSeq(s, 1, Len(s) - 1))
    ELSE s

TrimSpace(s) == TrimRight(TrimLeft(s))

\* a split at the first separator that drops what follows the second one
SplitN2_dropRest(s, sep) ==
    LET i == Index(s, sep)
        j == Index(SliceFrom(s, i + Len(sep)), sep)
    IN  IF i = -1 THEN <<s>>
        ELSE IF j = -1 THEN <<Slice(s, 0, i), SliceFrom(s, i + Len(sep))>>
        ELSE <<Slice(s, 0, i), Slice(s, i + Len(sep), i + Len(sep) + j)>>

\* strings.SplitN(s, sep, 2): one part when sep does not occur, else two
SplitN2(s, sep) ==
    LET i == Index(s, sep)
    IN  IF i = -1 THEN <<s>>
        ELSE <<Slice(s, 0, i), SliceFrom(s, i + Len(sep))>>

\* strings.Split(s, sep): every part, empty ones included
RECURSIVE Split(_, _)
Split(s, sep) ==
    LET i == Index(s, sep)
    IN  IF i = -1 THEN <<s>>
        ELSE <<Slice(s, 0, i)>> \o Split(SliceFrom(s, i + Len(sep)), sep)

RECURSIVE TrimSlashes(_)
TrimSlashes(s) ==
    IF s # <<>> /\ s[Len(s)] = "/"
    THEN TrimSlashes(SubSeq(s, 1, Len(s) - 1))
    ELSE s

\* filepath.Base: "." for the empty path, trailing slashes stripped, then
\* the text after the last slash; a path of slashes only is "/"
Base(path) ==
    IF path = <<>> THEN <<".">>
    ELSE LET p == TrimSlashes(path)
             slashes == {i \in 0..(Len(p) - 1) : At(p, i) = "/"}
             last == IF slashes = {} THEN -1
                     ELSE CHOOSE i \in slashes : \A j \in slashes : j <= i
         IN  IF p = <<>> THEN <<"/">> ELSE SliceFrom(p, last + 1)

\* ------------------------------------------------------------------------
\* The shell that the harness runs: `source ./PKGBUILD` (bash)
\* ------------------------------------------------------------------------

Letters == {"a", "b", "c", "d", "e", "f", "g", "h", "i", "j", "k", "l", "m",
            "n", "o", "p", "q", "r", "s", "t", "u", "v", "w", "x", "y", "z"}

Digits == {"0", "1", "2", "3", "4", "5", "6", "7", "8", "9"}

\* the characters of [a-zA-Z0-9_] that the model uses
NameChars == Letters \cup Digits \cup {"_"}

ShellError(i) == [ok |-> FALSE, val |-> <<>>, next |-> i]

\* One shell word starting at offset i: bare characters, '...' and "..."
\* segments are concatenated until unquoted white space (or, inside an array
\* literal, the closing parenthesis).  acc is the value read so far.
RECURSIVE ShellWord(_, _, _, _), ShellDQuote(_, _, _, _)
ShellWord(s, i, acc, inArray) ==
    IF i >= Len(s) \/ IsSpace(At(s, i)) \/ (inArray /\ At(s, i) = RP)
    THEN [ok |-> TRUE, val |-> acc, next |-> i]
    ELSE LET c == At(s, i)
         IN  CASE c = SQ ->
                    LET k == Index(SliceFrom(s, i + 1), <<SQ>>)
                    IN  IF k = -1 THEN ShellError(Len(s))
                        ELSE ShellWord(s, i + k + 2,
                                       acc \o Slice(s, i + 1, i + 1 + k), inArray)
               [] c = DQ -> ShellDQuote(s, i + 1, acc, inArray)
               [] c = BS ->
                    IF i + 1 >= Len(s)
                    THEN [ok |-> TRUE, val |-> Append(acc, BS), next |-> i + 1]
                    ELSE IF At(s, i + 1) = NL
                         THEN ShellWord(s, i + 2, acc, inArray)
                         ELSE ShellWord(s, i + 2, Append(acc, At(s, i + 1)), inArray)
               [] c \in {LP, RP} -> ShellError(i)
               [] OTHER -> ShellWord(s, i + 1, Append(acc, c), inArray)

\* inside double quotes a backslash escapes only a quote or a backslash
\* (and joins lines); the string ends at the first unescaped quote
ShellDQuote(s, i, acc, inArray) ==
    IF i >= Len(s) THEN ShellError(Len(s))
    ELSE LET c == At(s, i)
         IN  IF c = DQ THEN ShellWord(s, i + 1, acc, inArray)
             ELSE IF c = BS /\ i + 1 < Len(s) /\ At(s, i + 1) \in {DQ, BS}
                  THEN ShellDQuote(s, i + 2, Append(acc, At(s, i + 1)), inArray)
             ELSE IF c = BS /\ i + 1 < Len(s) /\ At(s, i + 1) = NL
                  THEN ShellDQuote(s, i + 2, acc, inArray)
             ELSE ShellDQuote(s, i + 1, Append(acc, c), inArray)

\* The elements of an array literal; i is just past the opening parenthesis.
RECURSIVE ShellArray(_, _, _)
ShellArray(s, i, elems) ==
    IF i >= Len(s) THEN ShellError(Len(s))
    ELSE IF IsSpace(At(s, i)) THEN ShellArray(s, i + 1, elems)
    ELSE IF At(s, i) = RP THEN [ok |-> TRUE, val |-> elems, next |-> i + 1]
    ELSE LET w == ShellWord(s, i, <<>>, TRUE)
         IN  IF ~w.ok THEN ShellError(w.next)
             ELSE ShellArray(s, w.next, Append(elems, w.val))

\* offset just past the longest run of name characters starting at i
RECURSIVE NameEnd(_, _)
NameEnd(s, i) ==
    IF i < Len(s) /\ At(s, i) \in NameChars THEN NameEnd(s, i + 1) ELSE i

\* a word that starts at i is an assignment word when it is NAME=...
IsAssignmentAt(s, i) ==
    LET e == NameEnd(s, i)
    IN  /\ e > i
        /\ At(s, i) \notin Digits
        /\ e < Len(s)
        /\ At(s, e) = EQ

\* One command line starting at offset i.  A line made only of assignment
\* words sets its variables; when a command word is present the assignments
\* go to that command's environment and the shell's variables are unchanged.
RECURSIVE ShellLine(_, _, _, _)
ShellLine(s, i, binds, allAssign) ==
    IF i >= Len(s) \/ At(s, i) = NL
    THEN [ok |-> TRUE, val |-> IF allAssign THEN binds ELSE <<>>, next |-> i]
    ELSE IF At(s, i) = SP THEN ShellLine(s, i + 1, binds, allAssign)
    ELSE IF allAssign /\ IsAssignmentAt(s, i)
    THEN LET e == NameEnd(s, i)
             name == Slice(s, i, e)
         IN  IF e + 1 < Len(s) /\ At(s, e + 1) = LP
             THEN LET a == ShellArray(s, e + 2, <<>>)
                  IN  IF ~a.ok \/ (a.next < Len(s) /\ ~IsSpace(At(s, a.next)))
                      THEN ShellError(a.next)
                      ELSE ShellLine(s, a.next,
                              Append(binds, [name |-> name, vals |-> a.val, isArray |-> TRUE]),
                              TRUE)
             ELSE LET w == ShellWord(s, e + 1, <<>>, FALSE)
                  IN  IF ~w.ok THEN ShellError(w.next)
                      ELSE ShellLine(s, w.next,
                              Append(binds, [name |-> name, vals |-> <<w.val>>, isArray |-> FALSE]),
                              TRUE)
    ELSE LET w == ShellWord(s, i, <<>>, FALSE)
         IN  IF ~w.ok THEN ShellError(w.next)
             ELSE ShellLine(s, w.next, binds, FALSE)

\* the shell's variable table: name -> [vals, isArray]
EmptyMap == [n \in {} |-> <<>>]

MapPut(m, k, v) == [n \in (DOMAIN m) \cup {k} |-> IF n = k THEN v ELSE m[n]]

\* assigning a scalar to a variable that is an array sets its element 0
ShellAssign(env, b) ==
    IF ~b.isArray /\ b.name \in DOMAIN env /\ env[b.name].isArray
       /\ env[b.name].vals # <<>>
    THEN MapPut(env, b.name,
                [vals |-> b.vals \o Tail(env[b.name].vals), isArray |-> TRUE])
    ELSE MapPut(env, b.name, [vals |-> b.vals, isArray |-> b.isArray])

RECURSIVE ShellAssignAll(_, _)
ShellAssignAll(env, binds) ==
    IF binds = <<>> THEN env
    ELSE ShellAssignAll(ShellAssign(env, Head(binds)), Tail(binds))

\* `source ./PKGBUILD`: commands are read and executed one at a time; a
\* syntax error abandons the rest of the file and keeps what was set before
RECURSIVE ShellSourceFrom(_, _, _)
ShellSourceFrom(s, i, env) ==
    IF i >= Len(s) THEN env
    ELSE IF IsSpace(At(s, i)) THEN ShellSourceFrom(s, i + 1, env)
    ELSE LET l == ShellLine(s, i, <<>>, TRUE)
         IN  IF ~l.ok THEN env
             ELSE ShellSourceFrom(s, l.next, ShellAssignAll(env, l.val))

ShellSource(s) == ShellSourceFrom(s, 0, EmptyMap)

\* the name is a variable the shell sets when it sources s
Assigns(s, name) == name \in DOMAIN ShellSource(s)

\* ------------------------------------------------------------------------
\* pkgbuild-var-printer.sh: print every new variable as name=value lines
\* ------------------------------------------------------------------------

\* byte order of the characters of the model, as sort(1) compares them
AsciiOrder == <<NL, SP, DQ, SQ, LP, RP, "-", ".", "/",
                "0", "1", "2", "3", "4", "5", "6", "7", "8", "9", ":", EQ, BS, "_",
                "a", "b", "c", "d", "e", "f", "g", "h", "i", "j", "k", "l", "m",
                "n", "o", "p", "q", "r", "s", "t", "u", "v", "w", "x", "y", "z">>

Rank(c) == CHOOSE i \in 1..Len(AsciiOrder) : AsciiOrder[i] = c

RECURSIVE StrLess(_, _)
StrLess(a, b) ==
    IF b = <<>> THEN FALSE
    ELSE IF a = <<>> THEN TRUE
    ELSE IF Head(a) = Head(b) THEN StrLess(Tail(a), Tail(b))
    ELSE Rank(Head(a)) < Rank(Head(b))

RECURSIVE SortNames(_)
SortNames(S) ==
    IF S = {} THEN <<>>
    ELSE LET least == CHOOSE n \in S : \A o \in S \ {n} : StrLess(n, o)
         IN  <<least>> \o SortNames(S \ {least})

\* the names the script skips (it also uses oldvars itself)
ExcludedNames == {<<"_">>, <<"o", "l", "d", "v", "a", "r", "s">>}

\* echo "$varName=$element" for every element of an array variable
RECURSIVE EchoArray(_, _)
EchoArray(name, elems) ==
    IF elems = <<>> THEN <<>>
    ELSE name \o <<EQ>> \o Head(elems) \o <<NL>> \o EchoArray(name, Tail(elems))

\* echo "$varName=${!varName}" for a scalar
EchoVar(name, v) ==
    IF v.isArray THEN EchoArray(name, v.vals)
    ELSE name \o <<EQ>> \o v.vals[1] \o <<NL>>

RECURSIVE EchoAll(_, _)
EchoAll(names, env) ==
    IF names = <<>> THEN <<>>
    ELSE EchoVar(Head(names), env[Head(names)]) \o EchoAll(Tail(names), env)

\* standard output of `bash pkgbuild-var-printer.sh` run beside the text
PrinterOutput(text) ==
    LET env == ShellSource(text)
    IN  EchoAll(SortNames((DOMAIN env) \ ExcludedNames), env)

\* ------------------------------------------------------------------------
\* getVariables: parsing of the harness output into map[string][]string
\* ------------------------------------------------------------------------

\* the loop over the output lines; vars is the map built so far
RECURSIVE ParseLines(_, _)
ParseLines(lines, vars) ==
    IF lines = <<>> THEN [ok |-> TRUE, vars |-> vars]
    ELSE LET line == Head(lines)
             parts == SplitN2(line, <<EQ>>)
         IN  IF TrimSpace(line) = <<>> THEN ParseLines(Tail(lines), vars)
             ELSE IF Len(parts) # 2 THEN [ok |-> FALSE, vars |-> EmptyMap]
             ELSE ParseLines(Tail(lines),
                             MapPut(vars, parts[1],
                                    IF parts[1] \in DOMAIN vars
                                    THEN Append(vars[parts[1]], parts[2])
                                    ELSE <<parts[2]>>))

ParseOutput(out) == ParseLines(Split(out, <<NL>>), EmptyMap)

\* what one successful run of the harness on text yields
Extract(text) == ParseOutput(PrinterOutput(text))

\* ------------------------------------------------------------------------
\* The PKGBUILD document (type PKGBUILD) and the files it touches
\* ------------------------------------------------------------------------

VARIABLES
    p,        \* the PKGBUILD struct: contents, contentsErr, contentsOnce,
              \* allVariables, allVariablesErr, allVariablesOnce
    fs,       \* file: the backing file dirPath/PKGBUILD (<<>> when absent,
              \* <<text>> when present); cwd: files left in the working
              \* directory; scratch: scratch directories that exist
    runs,     \* runs of the harness since the last successful write-back
    faults,   \* I/O faults injected so far
    ret,      \* the last call: operation, arguments and what it returned
    par,      \* one doParallel call: semaphore, loop index, goroutines, errors
    call,     \* one call of a string function: name, argument, result
    inst,     \* the mpr directory: cloned packages, their HEAD commits and
              \* install receipts, and the last command run
    upd       \* one `mpr update`: the packages, the state of each pull and
              \* the failedPackages slice its workers share

vars == <<p, fs, runs, faults, ret, par, call, inst, upd>>

\* the state of one PKGBUILD document and its files
docVars == <<p, fs, runs, faults, ret>>

\* the state outside the PKGBUILD document
nonDoc == <<par, call, inst, upd>>

\* no doParallel call is in progress
ParIdle == [pc |-> "idle"]

\* no `mpr update` is running
UpdIdle == [pc |-> "idle"]

\* no string function was called
CallIdle == [fn |-> "none", arg |-> <<>>, out |-> <<>>]

\* the directories `git clone` makes under the mpr directory
Dirs == {"a", "b"}

\* what the last command of the workflow did
NoLast == [op |-> "none", arg |-> <<>>, listed |-> <<>>, attempted |-> {},
           err |-> "nil"]

\* an mpr directory without packages, before any command.  head and
\* receipt are commit numbers; receipt 0 is a missing receipt file, which
\* reads as the empty string; built is the HEAD of the last successful build
InstIdle ==
    [dirs |-> {}, head |-> [d \in Dirs |-> 0], receipt |-> [d \in Dirs |-> 0],
     built |-> [d \in Dirs |-> 0], last |-> NoLast]

\* longest text a patch may produce
MaxTextLen == 17

\* I/O faults injected in one behaviour
MaxFaults == 1

\* a nil *map[string][]string, and a pointer to the map m
NilVars == <<>>

Ptr(m) == <<m>>

\* the text a read of the document yields
CurrentText == IF p.contentsOnce THEN p.contents ELSE fs.file[1]

\* func (p *PKGBUILD) readContents(): the file is read once; io = "readFail"
\* is a failing os.ReadFile
readContents(d, f, io) ==
    IF d.contentsOnce
    THEN [p |-> d, contents |-> d.contents, err |-> d.contentsErr, hit |-> FALSE]
    ELSE IF io = "readFail" \/ f.file = <<>>
    THEN [p |-> [d EXCEPT !.contentsOnce = TRUE, !.contents = <<>>,
                          !.contentsErr = "ReadFailure"],
          contents |-> <<>>, err |-> "ReadFailure", hit |-> io = "readFail"]
    ELSE [p |-> [d EXCEPT !.contentsOnce = TRUE, !.contents = f.file[1],
                          !.contentsErr = "nil"],
          contents |-> f.file[1], err |-> "nil", hit |-> FALSE]

\* writeContents that leaves the cached mapping in place
writeContents_keepCache(d, f, contents, io) ==
    IF io = "openFail"
    THEN [p |-> d, fs |-> f, err |-> "WriteFailure", hit |-> TRUE]
    ELSE IF io = "writeFail"
    THEN [p |-> d, fs |-> [f EXCEPT !.file = << <<>> >>],
          err |-> "WriteFailure", hit |-> TRUE]
    ELSE [p |-> [d EXCEPT !.contents = contents, !.contentsErr = "nil"],
          fs |-> [f EXCEPT !.file = <<contents>>],
          err |-> "nil", hit |-> FALSE]

\* func (p *PKGBUILD) writeContents(contents): os.WriteFile truncates the
\* file and then writes it; io = "openFail" fails before the truncation,
\* io = "writeFail" after it (the file is left truncated)
writeContents(d, f, contents, io) ==
    IF io = "openFail"
    THEN [p |-> d, fs |-> f, err |-> "WriteFailure", hit |-> TRUE]
    ELSE IF io = "writeFail"
    THEN [p |-> d, fs |-> [f EXCEPT !.file = << <<>> >>],
          err |-> "WriteFailure", hit |-> TRUE]
    ELSE [p |-> [d EXCEPT !.contents = contents, !.contentsErr = "nil",
                          !.allVariablesOnce = FALSE,
                          !.allVariables = NilVars,
                          !.allVariablesErr = "nil"],
          fs |-> [f EXCEPT !.file = <<contents>>],
          err |-> "nil", hit |-> FALSE]

\* the files getVariables writes when os.MkdirTemp failed: tmpDir is "" and
\* filepath.Join("", name) is a path in the working directory
HarnessFiles == {"PKGBUILD", "pkgbuild-var-printer.sh"}

\* os.MkdirTemp(".", "tmp-pkgbuild"): the directory exists afterwards; when
\* it fails (io = "mkdirFail") nothing is created and the name is ""
MkdirTemp(f, io) ==
    IF io = "mkdirFail" THEN [fs |-> f, tmpDir |-> ""]
    ELSE [fs |-> [f EXCEPT !.scratch = @ \cup {"tmp-pkgbuild"}],
          tmpDir |-> "tmp-pkgbuild"]

\* a RemoveAll that leaves the directory behind
RemoveAll_keep(f, path) == f

\* os.RemoveAll(path): removes the directory and what it holds;
\* RemoveAll("") returns at once
RemoveAll(f, path) ==
    IF path = "" THEN f ELSE [f EXCEPT !.scratch = @ \ {path}]

\* The body of allVariablesOnce.Do in getVariables.  rc is what readContents
\* returned and parsed the parse of the harness's output; io names the I/O
\* call that fails, if any.  The scratch directory is removed by the deferred
\* os.RemoveAll(tmpDir); after a failed MkdirTemp that is RemoveAll(""),
\* which removes nothing.
extractOnce(f, io, rc, parsed) ==
    LET tmp   == MkdirTemp(f, io)
        inCwd == tmp.tmpDir = ""
        d1    == [rc.p EXCEPT !.allVariablesOnce = TRUE]
        f0    == tmp.fs
        fCopy == IF inCwd THEN [f0 EXCEPT !.cwd = @ \cup {"PKGBUILD"}] ELSE f0
        fAll  == IF inCwd THEN [f0 EXCEPT !.cwd = @ \cup HarnessFiles] ELSE f0
        Fail(f2, e, ran, hit) ==
            [p |-> [d1 EXCEPT !.allVariablesErr = e],
             fs |-> RemoveAll(f2, tmp.tmpDir),
             val |-> d1.allVariables, err |-> e, ran |-> ran, hit |-> hit]
    IN  IF rc.err # "nil" THEN Fail(f0, rc.err, FALSE, rc.hit)
        ELSE IF io = "copyFail" THEN Fail(f0, "WriteFailure", FALSE, TRUE)
        ELSE IF io = "scriptFail" THEN Fail(fCopy, "WriteFailure", FALSE, TRUE)
        ELSE IF io = "execFail" THEN Fail(fAll, "ExecFailure", TRUE, TRUE)
        ELSE IF ~parsed.ok THEN Fail(fAll, "InvalidLine", TRUE, inCwd)
        ELSE [p |-> [d1 EXCEPT !.allVariables = Ptr(parsed.vars),
                               !.allVariablesErr = "nil"],
              fs |-> RemoveAll(fAll, tmp.tmpDir),
              val |-> Ptr(parsed.vars), err |-> "nil",
              ran |-> TRUE, hit |-> inCwd]

\* getVariables without the sync.Once: every call runs the body
getVariables_noOnce(d, f, io) ==
    extractOnce(f, io, readContents(d, f, io),
                Extract(readContents(d, f, io).contents))

\* func (p *PKGBUILD) getVariables(): the body of allVariablesOnce.Do runs
\* once per reset; later calls return the cached mapping and error
getVariables(d, f, io) ==
    IF d.allVariablesOnce
    THEN [p |-> d, fs |-> f, val |-> d.allVariables, err |-> d.allVariablesErr,
          ran |-> FALSE, hit |-> FALSE]
    ELSE extractOnce(f, io, readContents(d, f, io),
                     Extract(readContents(d, f, io).contents))

\* the lookup of getVariable in what getVariables returned
variableOf(r, name) ==
    IF r.err # "nil" THEN [r EXCEPT !.val = <<>>]
    ELSE IF name \in DOMAIN r.val[1]
    THEN [r EXCEPT !.val = r.val[1][name]]
    ELSE [r EXCEPT !.val = <<>>, !.err = "NotFound"]

\* func (p *PKGBUILD) getVariable(name)
getVariable(d, f, name, io) == variableOf(getVariables(d, f, io), name)

\* the length check of getSingleVariable on what getVariable returned
singleOf(r) ==
    IF r.err # "nil" THEN [r EXCEPT !.val = <<>>]
    ELSE IF Len(r.val) # 1 THEN [r EXCEPT !.val = <<>>, !.err = "MultiValued"]
    ELSE [r EXCEPT !.val = r.val[1]]

\* func (p *PKGBUILD) getSingleVariable(name)
getSingleVariable(d, f, name, io) == singleOf(getVariable(d, f, name, io))

\* the scan for the closing quote q in updateVar; varEnd is where the
\* previous round stopped (the opening quote in the first round)
RECURSIVE quoteEnd(_, _, _)
quoteEnd(source, varEnd, q) ==
    LET e == Index(SliceFrom(source, varEnd + 1), <<q>>) + varEnd + 2
    IN  IF At(source, e - 1) # BS THEN e ELSE quoteEnd(source, e + 1, q)

\* the end of the value span that starts at offset start (rules 1 to 3 of
\* updateVar)
varEnd(source, start) ==
    IF At(source, start) = SQ THEN quoteEnd(source, start, SQ)
    ELSE IF At(source, start) = DQ THEN quoteEnd(source, start, DQ)
    ELSE IF At(source, start) = LP
    THEN Index(SliceFrom(source, start), <<RP>>) + start + 1
    ELSE LET idx == IndexSpace(SliceFrom(source, start))
         IN  start + (IF idx = -1 THEN Len(SliceFrom(source, start)) ELSE idx)

\* where updateVar looks for the variable: the first occurrence of name=
varPrefixStart(source, varName) == Index(source, varName \o <<EQ>>)

\* func (p *PKGBUILD) updateVar(varName, newValue).  source[start] with
\* start = len(source) is an index out of range: the call panics.
updateVar(d, f, varName, newValue, io) ==
    LET rc      == readContents(d, f, io)
        source  == rc.contents
        vps     == varPrefixStart(source, varName)
        start   == vps + Len(varName) + 1
        patched == Slice(source, 0, start) \o newValue
                     \o SliceFrom(source, varEnd(source, start))
    IN  IF rc.err # "nil"
        THEN [p |-> rc.p, fs |-> f, err |-> rc.err, hit |-> rc.hit]
        ELSE IF vps = -1
        THEN [p |-> rc.p, fs |-> f, err |-> "NotFound", hit |-> FALSE]
        ELSE IF start >= Len(source)
        THEN [p |-> rc.p, fs |-> f, err |-> "panic", hit |-> FALSE]
        ELSE writeContents(rc.p, f, patched, io)

\* ------------------------------------------------------------------------
\* Documents and inputs of the model
\* ------------------------------------------------------------------------

nV == <<"v">>
nW == <<"w">>
nXV == <<"x", "v">>
nU == <<"u">>

\* value literals in the four assignment styles: bare word, single-quoted
\* (one of two lines), double-quoted (one with an escaped quote inside),
\* arrays of one and two elements
Literals == { <<"a">>,
              <<SQ, "a", "b", SQ>>,
              <<SQ, "a", NL, "b", SQ>>,
              <<DQ, "c", DQ>>,
              <<DQ, "a", BS, DQ, "b", DQ>>,
              <<LP, "a", RP>>,
              <<LP, "a", SP, "b", RP>> }

Assign(name, lit) == name \o <<EQ>> \o lit

\* [xv=a] v=<literal> [w=b]
PatchDocs ==
    { pre \o Assign(nV, lit) \o post :
        pre \in {<<>>, Assign(nXV, <<"a">>) \o <<NL>>},
        lit \in Literals,
        post \in {<<>>, <<NL>> \o Assign(nW, <<"b">>)} }

ReadNames == {nV, nXV}

UpdateNames == {nV, nU}

\* the I/O call of getVariables that fails, and the one of updateVar
ReadFaults == {"mkdirFail", "readFail", "copyFail", "scriptFail", "execFail"}

WriteFaults == {"readFail", "openFail", "writeFail"}

\* documents and literals of the runs with failing I/O
IODocs == { Assign(nV, <<"a">>),
            Assign(nV, <<LP, "a", SP, "b", RP>>) \o <<NL>> \o Assign(nW, <<"b">>) }

IOLiterals == { <<"a">>, <<DQ, "c", DQ>> }

NoRet == [op |-> "new", name |-> <<>>, lit |-> <<>>, val |-> <<>>,
          err |-> "nil", ran |-> FALSE, wasSet |-> FALSE]

\* NewPKGBUILD(dirPath) over a directory holding the text
NewPKGBUILD ==
    [contents |-> <<>>, contentsErr |-> "nil", contentsOnce |-> FALSE,
     allVariables |-> NilVars, allVariablesErr |-> "nil",
     allVariablesOnce |-> FALSE]

\* NewPKGBUILDFromContents(contents): the text is marked as read and the
\* fresh temporary directory holds no PKGBUILD file
NewPKGBUILDFromContents(contents) ==
    [NewPKGBUILD EXCEPT !.contents = contents, !.contentsOnce = TRUE]

InitDoc(docs) ==
    /\ \E text \in docs :
         \/ p = NewPKGBUILD /\ fs = [file |-> <<text>>, cwd |-> {}, scratch |-> {}]
         \/ p = NewPKGBUILDFromContents(text)
            /\ fs = [file |-> <<>>, cwd |-> {}, scratch |-> {}]
    /\ runs = 0
    /\ faults = 0
    /\ ret = NoRet
    /\ par = ParIdle
    /\ call = CallIdle
    /\ inst = InstIdle
    /\ upd = UpdIdle

Init == InitDoc(PatchDocs)

\* cap of the run counter
MaxRuns == 2

\* the bookkeeping every call shares: fault budget, run counter
Called(r, ran) ==
    /\ r.hit => faults < MaxFaults
    /\ faults' = faults + (IF r.hit THEN 1 ELSE 0)
    /\ runs' = IF ran /\ runs < MaxRuns THEN runs + 1 ELSE runs

GetVariables(io) ==
    \E r \in {getVariables(p, fs, io)} :
        /\ io = "ok" \/ faults < MaxFaults
        /\ io = "ok" \/ r.hit
        /\ Called(r, r.ran)
        /\ p' = r.p
        /\ fs' = r.fs
        /\ UNCHANGED nonDoc
        /\ ret' = [NoRet EXCEPT !.op = "getVariables", !.val = r.val,
                                !.err = r.err, !.ran = r.ran]

GetVariable(name, io) ==
    \E r \in {getVariable(p, fs, name, io)} :
        /\ io = "ok" \/ faults < MaxFaults
        /\ io = "ok" \/ r.hit
        /\ Called(r, r.ran)
        /\ p' = r.p
        /\ fs' = r.fs
        /\ UNCHANGED nonDoc
        /\ ret' = [NoRet EXCEPT !.op = "getVariable", !.name = name,
                                !.val = r.val, !.err = r.err, !.ran = r.ran]

GetSingleVariable(name, io) ==
    \E r \in {getSingleVariable(p, fs, name, io)} :
        /\ io = "ok" \/ faults < MaxFaults
        /\ io = "ok" \/ r.hit
        /\ Called(r, r.ran)
        /\ p' = r.p
        /\ fs' = r.fs
        /\ UNCHANGED nonDoc
        /\ ret' = [NoRet EXCEPT !.op = "getSingleVariable", !.name = name,
                                !.val = r.val, !.err = r.err, !.ran = r.ran]

UpdateVar(name, lit, io) ==
    \E r \in {updateVar(p, fs, name, lit, io)} :
        /\ io = "ok" \/ faults < MaxFaults
        /\ io = "ok" \/ r.hit
        /\ r.err = "nil" => Len(r.p.contents) <= MaxTextLen
        /\ r.hit => faults < MaxFaults
        /\ faults' = faults + (IF r.hit THEN 1 ELSE 0)
        /\ runs' = IF r.err = "nil" THEN 0 ELSE runs
        /\ p' = r.p
        /\ fs' = r.fs
        /\ UNCHANGED nonDoc
        /\ ret' = [NoRet EXCEPT !.op = "updateVar", !.name = name, !.lit = lit,
                                !.err = r.err,
                                !.wasSet = Assigns(CurrentText, name)]

\* every call succeeds in its I/O
Next ==
    \/ GetVariables("ok")
    \/ \E name \in ReadNames : GetVariable(name, "ok")
    \/ \E name \in ReadNames : GetSingleVariable(name, "ok")
    \/ \E name \in UpdateNames, lit \in Literals : UpdateVar(name, lit, "ok")

Spec == Init /\ [][Next]_vars

\* the same calls when I/O may fail
InitIO == InitDoc(IODocs)

NextIO ==
    \/ \E io \in ReadFaults \cup {"ok"} : GetVariables(io)
    \/ \E name \in ReadNames, io \in ReadFaults \cup {"ok"} : GetVariable(name, io)
    \/ \E name \in ReadNames, io \in ReadFaults \cup {"ok"} :
          GetSingleVariable(name, io)
    \/ \E name \in UpdateNames, lit \in IOLiterals, io \in WriteFaults \cup {"ok"} :
          UpdateVar(name, lit, io)

SpecIO == InitIO /\ [][NextIO]_vars

\* ------------------------------------------------------------------------
\* What a text means to the shell, for stating the claims
\* ------------------------------------------------------------------------

\* The first assignment word of variable name that the shell executes in s:
\* valueStart is the offset just past its `=`, valueEnd the offset just past
\* its value literal (quotes, escapes and parentheses read as the shell does).
RECURSIVE AssignmentFrom(_, _, _)
AssignmentFrom(s, i, name) ==
    IF i >= Len(s) THEN [found |-> FALSE, valueStart |-> 0, valueEnd |-> 0]
    ELSE IF IsSpace(At(s, i)) THEN AssignmentFrom(s, i + 1, name)
    ELSE IF IsAssignmentAt(s, i)
    THEN LET e == NameEnd(s, i)
             v == IF e + 1 < Len(s) /\ At(s, e + 1) = LP
                  THEN ShellArray(s, e + 2, <<>>)
                  ELSE ShellWord(s, e + 1, <<>>, FALSE)
         IN  IF ~v.ok THEN [found |-> FALSE, valueStart |-> 0, valueEnd |-> 0]
             ELSE IF Slice(s, i, e) = name
             THEN [found |-> TRUE, valueStart |-> e + 1, valueEnd |-> v.next]
             ELSE AssignmentFrom(s, v.next, name)
    ELSE LET w == ShellWord(s, i, <<>>, FALSE)
         IN  IF ~w.ok \/ w.next = i
             THEN [found |-> FALSE, valueStart |-> 0, valueEnd |-> 0]
             ELSE AssignmentFrom(s, w.next, name)

AssignmentOf(s, name) == AssignmentFrom(s, 0, name)

\* the values a literal denotes: those of x after the shell runs x=<literal>
Denotes(lit) == ShellSource(Assign(<<"x">>, lit))[<<"x">>].vals

\* the shell's variables other than name after it sources s
OtherVars(s, name) ==
    LET env == ShellSource(s)
    IN  [n \in (DOMAIN env) \ {name} |-> env[n]]

\* ------------------------------------------------------------------------
\* Claims
\* ------------------------------------------------------------------------

\* C1 (cache freshness): whenever a variable mapping is cached without error
\* it is the extraction of the document's current text, a reset cache holds
\* no mapping, and every successful getVariables / getVariable /
\* getSingleVariable returns what extracting the current text yields; so no
\* read returns a mapping of a text older than the last successful write.
C1_CacheFresh ==
    /\ (p.allVariablesOnce /\ p.allVariablesErr = "nil")
          => /\ p.contentsOnce
             /\ p.contentsErr = "nil"
             /\ Extract(p.contents).ok
             /\ p.allVariables = Ptr(Extract(p.contents).vars)
    /\ ~p.allVariablesOnce
          => p.allVariables = NilVars /\ p.allVariablesErr = "nil"
    /\ (ret.op = "getVariables" /\ ret.err = "nil")
          => ret.val = Ptr(Extract(p.contents).vars)
    /\ (ret.op = "getVariable" /\ ret.err = "nil")
          => /\ ret.name \in DOMAIN Extract(p.contents).vars
             /\ ret.val = Extract(p.contents).vars[ret.name]
    /\ (ret.op = "getSingleVariable" /\ ret.err = "nil")
          => /\ ret.name \in DOMAIN Extract(p.contents).vars
             /\ <<ret.val>> = Extract(p.contents).vars[ret.name]

\* a mapping extracted again after a successful write-back changed the text
C1_Witness ==
    /\ ret.op = "getVariables"
    /\ ret.err = "nil"
    /\ ret.ran
    /\ p.contents \notin IODocs

\* C2 (patch then read): a successful updateVar(name, literal) on a document
\* that assigns name, followed by getVariable(name), returns the values the
\* literal denotes; followed by getSingleVariable(name) it returns the single
\* value the literal denotes.
C2_PatchThenRead ==
    [][ ( /\ ret.op = "updateVar"
          /\ ret.err = "nil"
          /\ ret.wasSet
          /\ ret'.op \in {"getVariable", "getSingleVariable"}
          /\ ret'.name = ret.name )
        => /\ ret'.op = "getVariable"
                => ret'.err = "nil" /\ ret'.val = Denotes(ret.lit)
           /\ (ret'.op = "getSingleVariable" /\ Len(Denotes(ret.lit)) = 1)
                => ret'.err = "nil" /\ ret'.val = Denotes(ret.lit)[1]
      ]_vars

\* C3 (frame of a patch): a successful updateVar(name, literal) on a document
\* that assigns name yields the text up to and including that assignment's
\* `name=`, the literal, and the text after the old value; every other
\* variable keeps its value.
C3_PatchFrame ==
    [][ ( /\ ret'.op = "updateVar"
          /\ ret'.err = "nil"
          /\ Assigns(CurrentText, ret'.name) )
        => LET a == AssignmentOf(CurrentText, ret'.name)
           IN  /\ p'.contents = Slice(CurrentText, 0, a.valueStart) \o ret'.lit
                                  \o SliceFrom(CurrentText, a.valueEnd)
               /\ OtherVars(p'.contents, ret'.name) = OtherVars(CurrentText, ret'.name)
      ]_vars

\* C4 (all or nothing): an updateVar that fails (no `name=` token, read
\* failure, write failure) leaves the document's text, the backing file and
\* the cached variable mapping as they were before the call.
C4_AllOrNothing ==
    [][ ( /\ ret'.op = "updateVar"
          /\ ret'.err \in {"NotFound", "ReadFailure", "WriteFailure"} )
        => /\ p'.contents = (IF p.contentsOnce THEN p.contents
                             ELSE IF p'.contentsErr = "nil" THEN fs.file[1]
                             ELSE <<>>)
           /\ fs'.file = fs.file
           /\ p'.allVariables = p.allVariables
           /\ p'.allVariablesErr = p.allVariablesErr
           /\ p'.allVariablesOnce = p.allVariablesOnce
      ]_vars

\* C5 (round trip): patching a variable the document assigns to the literal
\* that currently stands as its value yields the original text.
C5_PatchRoundTrip ==
    [][ ( /\ ret'.op = "updateVar"
          /\ ret'.err = "nil"
          /\ Assigns(CurrentText, ret'.name)
          /\ LET a == AssignmentOf(CurrentText, ret'.name)
             IN  ret'.lit = Slice(CurrentText, a.valueStart, a.valueEnd) )
        => p'.contents = CurrentText
      ]_vars

\* C6 (array extraction): for every array variable with N >= 1 elements that
\* the document declares, getVariables maps the name to exactly these N
\* values in declaration order, and every scalar variable to the
\* single-element list of its value.
C6_ArrayExtraction ==
    (ret.op = "getVariables" /\ p.contentsErr = "nil")
       => LET env == ShellSource(p.contents)
          IN  \A n \in DOMAIN env :
                 (~env[n].isArray \/ Len(env[n].vals) >= 1)
                    => /\ ret.err = "nil"
                       /\ n \in DOMAIN ret.val[1]
                       /\ ret.val[1][n] = env[n].vals

\* ------------------------------------------------------------------------
\* Architecture merge and source specifications
\* ------------------------------------------------------------------------

\* runtime.GOARCH of the build, and another architecture of the release
HostArch == <<"a", "m", "d", "6", "4">>

OtherArch == <<"a", "r", "m", "6", "4">>

ArchSuffix == <<"_">> \o HostArch

\* the loop of getVariablesMerged over the names of the map: the values of
\* name_<arch> are appended to those of name, which is created when missing.
\* The base name of a visited name never has the suffix itself in the
\* documents of the model, so the order of the range does not matter.
RECURSIVE mergeArch(_, _)
mergeArch(vmap, names) ==
    IF names = <<>> THEN vmap
    ELSE LET name == Head(names)
             baseName == TrimSuffix(name, ArchSuffix)
             base == IF baseName \in DOMAIN vmap THEN vmap[baseName] ELSE <<>>
         IN  IF ~HasSuffix(name, ArchSuffix) THEN mergeArch(vmap, Tail(names))
             ELSE mergeArch(MapPut(vmap, baseName, base \o vmap[name]), Tail(names))

\* func (p *PKGBUILD) getVariablesMerged(): `vars := *varsAddr` copies the
\* map header only, so the loop writes into the cached map
mergeInto(r, merged) ==
    IF r.err # "nil" THEN [r EXCEPT !.val = NilVars]
    ELSE [r EXCEPT !.val = Ptr(merged), !.p.allVariables = Ptr(merged)]

\* the loop of getVariablesMerged applied to what getVariables returned
mergedOf(r) ==
    mergeInto(r, IF r.err # "nil" THEN EmptyMap
                 ELSE mergeArch(r.val[1], SortNames(DOMAIN r.val[1])))

getVariablesMerged(d, f, io) == mergedOf(getVariables(d, f, io))

cksums == <<"c", "k", "s", "u", "m", "s">>
md5sums == <<"m", "d", "5", "s", "u", "m", "s">>
sha1sums == <<"s", "h", "a", "1", "s", "u", "m", "s">>
sha224sums == <<"s", "h", "a", "2", "2", "4", "s", "u", "m", "s">>
sha256sums == <<"s", "h", "a", "2", "5", "6", "s", "u", "m", "s">>
sha384sums == <<"s", "h", "a", "3", "8", "4", "s", "u", "m", "s">>
sha512sums == <<"s", "h", "a", "5", "1", "2", "s", "u", "m", "s">>
b2sums == <<"b", "2", "s", "u", "m", "s">>

HashFamilies == <<cksums, md5sums, sha1sums, sha224sums, sha256sums,
                  sha384sums, sha512sums, b2sums>>

source == <<"s", "o", "u", "r", "c", "e">>

\* func (p *PKGBUILD) getHashes(): the first family getVariable finds, an
\* empty slice (and no error) when it finds none.  g is the first call's
\* getVariables, which the later calls find cached.
RECURSIVE hashesFrom(_, _), hashOrNext(_, _, _)
hashesFrom(g, i) ==
    IF i > Len(HashFamilies) THEN [g EXCEPT !.val = <<>>, !.err = "nil"]
    ELSE hashOrNext(g, getVariable(g.p, g.fs, HashFamilies[i], "ok"), i)

\* one round of the loop of getHashes: r is what getVariable returned for
\* family i
hashOrNext(g, r, i) ==
    IF r.err = "nil" THEN [g EXCEPT !.val = r.val] ELSE hashesFrom(g, i + 1)

\* an error for an empty list of hashes
missingWhenEmpty(h) == IF h.val = <<>> THEN [h EXCEPT !.err = "NotFound"] ELSE h

\* getHashes that fails when no family exists
getHashes_missing(d, f, io) ==
    missingWhenEmpty(hashesFrom(getVariables(d, f, io), 1))

getHashes(d, f, io) == hashesFrom(getVariables(d, f, io), 1)

\* a length check that only rejects missing hashes
lengthsDiffer_short(hashesVar, sourceVar) == Len(hashesVar) < Len(sourceVar)

\* the length check of getSources
lengthsDiffer(hashesVar, sourceVar) == Len(hashesVar) # Len(sourceVar)

\* a source entry that splits at the last `::` instead of the first
sourceInfo_lastSep(sourceSpec, hash) ==
    LET seps == {i \in 0..(Len(sourceSpec) - 2) : HasPrefixAt(sourceSpec, <<":", ":">>, i)}
        last == CHOOSE i \in seps : \A j \in seps : j <= i
    IN  IF seps = {}
        THEN [localName |-> Base(sourceSpec), remoteURL |-> sourceSpec, hash |-> hash]
        ELSE [localName |-> Slice(sourceSpec, 0, last),
              remoteURL |-> SliceFrom(sourceSpec, last + 2), hash |-> hash]

\* one PKGBUILD_source of getSources
sourceInfo(sourceSpec, hash) ==
    IF Contains(sourceSpec, <<":", ":">>)
    THEN [localName |-> SplitN2(sourceSpec, <<":", ":">>)[1],
          remoteURL |-> SplitN2(sourceSpec, <<":", ":">>)[2],
          hash |-> hash]
    ELSE [localName |-> Base(sourceSpec), remoteURL |-> sourceSpec, hash |-> hash]

\* the body of getSources after its two reads: h is what getHashes returned,
\* s what getVariable("source") returned
pairSources(h, s) ==
    LET r == [s EXCEPT !.ran = h.ran \/ s.ran, !.hit = h.hit \/ s.hit]
    IN  IF h.err # "nil" THEN [h EXCEPT !.val = <<>>]
        ELSE IF s.err # "nil" THEN [r EXCEPT !.val = <<>>]
        ELSE IF lengthsDiffer(h.val, s.val)
        THEN [r EXCEPT !.val = <<>>, !.err = "LengthMismatch"]
        ELSE [r EXCEPT !.val = [idx \in 1..Len(s.val) |->
                                   sourceInfo(s.val[idx], h.val[idx])]]

\* getSources once getHashes returned h
sourcesAfter(h) == pairSources(h, getVariable(h.p, h.fs, source, "ok"))

\* func (p *PKGBUILD) getSources()
getSources(d, f, io) == sourcesAfter(getHashes(d, f, io))

\* ------------------------------------------------------------------------
\* Documents with sources, checksums and architecture-specific variables
\* ------------------------------------------------------------------------

foo == <<"f", "o", "o">>

Arr1(x) == <<LP>> \o x \o <<RP>>

Arr2(x, y) == <<LP>> \o x \o <<SP>> \o y \o <<RP>>

RECURSIVE JoinLines(_)
JoinLines(parts) ==
    IF parts = <<>> THEN <<>>
    ELSE IF Head(parts) = <<>> THEN JoinLines(Tail(parts))
    ELSE LET rest == JoinLines(Tail(parts))
         IN  IF rest = <<>> THEN Head(parts) ELSE Head(parts) \o <<NL>> \o rest

FooParts ==
    { <<>>,
      JoinLines(<<Assign(foo, <<"1">>), Assign(foo \o ArchSuffix, <<"2">>),
                  Assign(foo \o <<"_">> \o OtherArch, <<"9">>)>>),
      Assign(foo \o ArchSuffix, <<"2">>),
      JoinLines(<<Assign(foo, <<"1">>),
                  Assign(foo \o <<"_">> \o OtherArch, <<"9">>)>>) }

urlY == <<"x", "/", "y">>

SourceParts ==
    { <<>>,
      Assign(source, Arr1(<<"y">>)),
      Assign(source, Arr2(<<"a">> \o <<":", ":">> \o urlY, urlY)),
      Assign(source, Arr1(<<"a", ":", ":", "b", ":", ":", "c">>)),
      JoinLines(<<Assign(source, Arr1(<<"y">>)),
                  Assign(source \o ArchSuffix, Arr1(<<"z">>))>>) }

HashParts ==
    { <<>>,
      Assign(sha256sums, Arr1(<<"h">>)),
      Assign(sha256sums, Arr2(<<"h">>, <<"i">>)),
      JoinLines(<<Assign(md5sums, Arr1(<<"h">>)),
                  Assign(sha256sums, Arr2(<<"i">>, <<"j">>))>>),
      JoinLines(<<Assign(sha256sums, Arr1(<<"h">>)),
                  Assign(sha256sums \o ArchSuffix, Arr1(<<"i">>))>>) }

SourceDocs ==
    { JoinLines(<<f, s, h>>) : f \in FooParts, s \in SourceParts, h \in HashParts }
       \ {<<>>}

SourceNames == {foo, source}

\* longest value list a merge may produce
MaxValues == 3

GetVariablesMerged ==
    \E r \in {getVariablesMerged(p, fs, "ok")} :
        /\ r.err = "nil" => \A n \in DOMAIN r.val[1] : Len(r.val[1][n]) <= MaxValues
        /\ Called(r, r.ran)
        /\ p' = r.p
        /\ fs' = r.fs
        /\ UNCHANGED nonDoc
        /\ ret' = [NoRet EXCEPT !.op = "getVariablesMerged", !.val = r.val,
                                !.err = r.err, !.ran = r.ran]

GetHashes ==
    \E r \in {getHashes(p, fs, "ok")} :
        /\ Called(r, r.ran)
        /\ p' = r.p
        /\ fs' = r.fs
        /\ UNCHANGED nonDoc
        /\ ret' = [NoRet EXCEPT !.op = "getHashes", !.val = r.val,
                                !.err = r.err, !.ran = r.ran]

GetSources ==
    \E r \in {getSources(p, fs, "ok")} :
        /\ Called(r, r.ran)
        /\ p' = r.p
        /\ fs' = r.fs
        /\ UNCHANGED nonDoc
        /\ ret' = [NoRet EXCEPT !.op = "getSources", !.val = r.val,
                                !.err = r.err, !.ran = r.ran]

InitSrc == InitDoc(SourceDocs)

NextSrc ==
    \/ GetVariables("ok")
    \/ GetVariablesMerged
    \/ \E name \in SourceNames : GetVariable(name, "ok")
    \/ GetHashes
    \/ GetSources

SpecSrc == InitSrc /\ [][NextSrc]_vars

\* ------------------------------------------------------------------------
\* Claims about the merge and the sources
\* ------------------------------------------------------------------------

\* the mapping the calls of the last operation read
Cached == p.allVariables[1]

\* the hash family getSources pairs with source: the first one present
PresentFamilies == {i \in 1..Len(HashFamilies) : HashFamilies[i] \in DOMAIN Cached}

ChosenFamily ==
    HashFamilies[CHOOSE i \in PresentFamilies : \A j \in PresentFamilies : i <= j]

\* C7 (architecture merge): the mapping getVariablesMerged returns has, for
\* every raw name_<hostArch>, the raw values of name followed by those of
\* name_<hostArch> under name (created when name is missing), and leaves
\* every name without host-architecture values as extracted; values of
\* name_<otherArch> never enter name.
C7_ArchMerge ==
    (ret.op = "getVariablesMerged" /\ ret.err = "nil")
       => LET raw == Extract(p.contents).vars
              m == ret.val[1]
          IN  \A n \in DOMAIN raw :
                 /\ HasSuffix(n, ArchSuffix)
                      => LET b == TrimSuffix(n, ArchSuffix)
                         IN  /\ b \in DOMAIN m
                             /\ m[b] = (IF b \in DOMAIN raw THEN raw[b] ELSE <<>>)
                                          \o raw[n]
                 /\ (n \o ArchSuffix) \notin DOMAIN raw
                      => n \in DOMAIN m /\ m[n] = raw[n]

FirstSep(v) ==
    LET seps == {i \in 0..(Len(v) - 2) : At(v, i) = ":" /\ At(v, i + 1) = ":"}
    IN  IF seps = {} THEN -1 ELSE CHOOSE i \in seps : \A j \in seps : i <= j

\* the text after the last slash of a value
RECURSIVE LastSegment(_)
LastSegment(v) ==
    IF v = <<>> \/ v[Len(v)] = "/" THEN <<>>
    ELSE Append(LastSegment(SubSeq(v, 1, Len(v) - 1)), v[Len(v)])

MemoDocs ==
    IODocs \cup { Assign(nV, <<SQ, "a", NL, "b", SQ>>),
                  JoinLines(<<Assign(nV, <<"a">>), Assign(source, Arr1(<<"y">>))>>),
                  JoinLines(<<Assign(source, Arr1(<<"y">>)),
                              Assign(b2sums, Arr1(<<"h">>))>>) }

InitMemo == InitDoc(MemoDocs)

NextMemo ==
    \/ NextIO
    \/ GetHashes
    \/ GetSources

SpecMemo == InitMemo /\ [][NextMemo]_vars

\* the calls that read the variable mapping
ReadOps == {"getVariables", "getVariable", "getSingleVariable", "getHashes",
            "getSources"}

\* C11 (memoization): between two successful write-backs, and from
\* construction to the first one, the harness runs at most once; a read of a
\* document whose extraction was already attempted does not run it again and
\* leaves the cached error as it was, and getVariables returns that error.
C11_Memoized ==
    [][ /\ runs' <= 1
        /\ (p.allVariablesOnce /\ ret'.op \in ReadOps)
              => /\ ~ret'.ran
                 /\ runs' = runs
                 /\ p'.allVariablesOnce
                 /\ p'.allVariablesErr = p.allVariablesErr
                 /\ ret'.op = "getVariables" => ret'.err = p.allVariablesErr
      ]_vars

\* a read after an extraction whose harness run failed: the error again,
\* without a second run
C11_Witness ==
    /\ ret.op \in ReadOps
    /\ ret.err = "ExecFailure"
    /\ ~ret.ran
    /\ runs = 1

\* C12 (scratch directory cleanup): when a call has returned no scratch
\* directory exists, whichever way the extraction ended.
C12_ScratchRemoved == fs.scratch = {}

\* a harness that ran in its scratch directory and failed there (non-zero
\* exit or malformed line): the directory is gone
C12_Witness ==
    /\ ret.op \in ReadOps
    /\ ret.ran
    /\ ret.err \in {"ExecFailure", "InvalidLine"}
    /\ fs.cwd = {}
    /\ fs.scratch = {}

\* ------------------------------------------------------------------------
\* doParallel(totalIterations, maxConcurrency, work)
\* ------------------------------------------------------------------------

\* most items of one call, and the largest concurrency limit
MaxTotal == 3

MaxConcurrency == 2

\* the indices the loop of doParallel visits
Items(total) == 0..(total - 1)

\* an Acquire that never waits
canAcquire_any(cur, size, n) == TRUE

\* semaphore.Weighted.Acquire(ctx, n) returns when size - cur >= n; only the
\* goroutine of doParallel acquires, so no other waiter is ahead of it, and
\* context.TODO() is never cancelled, so Acquire returns no error
canAcquire(cur, size, n) == size - cur >= n

\* a scan that looks at the first item only
firstError_head(errors, total) ==
    IF total > 0 THEN errors[0] ELSE "nil"

\* the loop over errors at the end of doParallel: the first non-nil one
firstError(errors, total) ==
    IF \A k \in Items(total) : errors[k] = "nil" THEN "nil"
    ELSE errors[CHOOSE k \in Items(total) :
                   /\ errors[k] # "nil"
                   /\ \A j \in Items(total) : errors[j] # "nil" => k <= j]

\* doParallel is entered: the semaphore and the slice of errors are made
DoParallel(total, maxConcurrency) ==
    /\ par.pc = "idle"
    /\ par' = [pc |-> "loop", total |-> total, maxConcurrency |-> maxConcurrency,
               cur |-> 0, i |-> 0,
               g |-> [k \in Items(total) |-> "none"],
               calls |-> [k \in Items(total) |-> 0],
               returned |-> [k \in Items(total) |-> "none"],
               errors |-> [k \in Items(total) |-> "nil"],
               result |-> "none"]
    /\ UNCHANGED <<docVars, call, inst, upd>>

\* one round of the loop: sem.Acquire(ctx, 1), then the go statement
LoopAcquire ==
    /\ par.pc = "loop"
    /\ par.i < par.total
    /\ canAcquire(par.cur, par.maxConcurrency, 1)
    /\ par' = [par EXCEPT !.cur = @ + 1, !.g[par.i] = "spawned", !.i = @ + 1]
    /\ UNCHANGED <<docVars, call, inst, upd>>

\* the loop ends
LoopExit ==
    /\ par.pc = "loop"
    /\ par.i >= par.total
    /\ par' = [par EXCEPT !.pc = "wait"]
    /\ UNCHANGED <<docVars, call, inst, upd>>

\* goroutine k calls work(k)
WorkStart(k) ==
    /\ par.pc \in {"loop", "wait", "done"}
    /\ k \in Items(par.total)
    /\ par.g[k] = "spawned"
    /\ par' = [par EXCEPT !.g[k] = "working", !.calls[k] = @ + 1]
    /\ UNCHANGED <<docVars, call, inst, upd>>

\* work(k) returns e; a non-nil e is stored in errors[k] under the mutex
WorkReturn(k, e) ==
    /\ par.pc \in {"loop", "wait", "done"}
    /\ k \in Items(par.total)
    /\ par.g[k] = "working"
    /\ par' = [par EXCEPT !.g[k] = "returned", !.returned[k] = e,
                          !.errors[k] = IF e # "nil" THEN e ELSE @]
    /\ UNCHANGED <<docVars, call, inst, upd>>

\* a goroutine that ends without releasing its weight
Release_keep(k) ==
    /\ par.pc \in {"loop", "wait", "done"}
    /\ k \in Items(par.total)
    /\ par.g[k] = "returned"
    /\ par' = [par EXCEPT !.g[k] = "done"]
    /\ UNCHANGED <<docVars, call, inst, upd>>

\* the deferred sem.Release(1) of goroutine k
Release(k) ==
    /\ par.pc \in {"loop", "wait", "done"}
    /\ k \in Items(par.total)
    /\ par.g[k] = "returned"
    /\ par' = [par EXCEPT !.g[k] = "done", !.cur = @ - 1]
    /\ UNCHANGED <<docVars, call, inst, upd>>

\* sem.Acquire(ctx, maxConcurrency) returns, the errors are scanned and
\* doParallel returns
WaitAll ==
    /\ par.pc = "wait"
    /\ canAcquire(par.cur, par.maxConcurrency, par.maxConcurrency)
    /\ par' = [par EXCEPT !.pc = "done", !.cur = par.maxConcurrency,
                          !.result = firstError(par.errors, par.total)]
    /\ UNCHANGED <<docVars, call, inst, upd>>

\* a document that no action of doParallel touches
InitPar ==
    /\ p = NewPKGBUILDFromContents(<<>>)
    /\ fs = [file |-> <<>>, cwd |-> {}, scratch |-> {}]
    /\ runs = 0
    /\ faults = 0
    /\ ret = NoRet
    /\ par = ParIdle
    /\ call = CallIdle
    /\ inst = InstIdle
    /\ upd = UpdIdle

NextPar ==
    \/ \E total \in 0..MaxTotal, maxConcurrency \in 1..MaxConcurrency :
          DoParallel(total, maxConcurrency)
    \/ LoopAcquire
    \/ LoopExit
    \/ \E k \in 0..(MaxTotal - 1) : WorkStart(k)
    \/ \E k \in 0..(MaxTotal - 1), e \in {"nil", "err"} : WorkReturn(k, e)
    \/ \E k \in 0..(MaxTotal - 1) : Release(k)
    \/ WaitAll

SpecPar == InitPar /\ [][NextPar]_vars

\* the invocations of work that have started and not yet finished
Working == {k \in Items(par.total) : par.g[k] = "working"}

\* C13 (bounded concurrency): in every interleaving the number of work(i)
\* invocations that have started and not yet finished is at most
\* maxConcurrency.
C13_BoundedConcurrency ==
    par.pc # "idle" => Cardinality(Working) <= par.maxConcurrency

\* the limit is reached while an item is still waiting for its turn
C13_Witness ==
    /\ par.pc = "loop"
    /\ par.i < par.total
    /\ Cardinality(Working) = par.maxConcurrency

\* C14 (collect then fail): work(i) is never invoked twice; when doParallel
\* has returned, work(i) was invoked once for every i and every invocation
\* has finished, and the result is an error exactly when some work(i)
\* returned one.
C14_CollectThenFail ==
    par.pc # "idle"
       => /\ \A k \in Items(par.total) : par.calls[k] <= 1
          /\ par.pc = "done"
                => /\ \A k \in Items(par.total) :
                         par.calls[k] = 1 /\ par.g[k] = "done"
                   /\ par.result # "nil"
                         <=> \E k \in Items(par.total) : par.returned[k] # "nil"

\* the first item failed, a later one ran all the same and succeeded, and
\* doParallel returned the error
C14_Witness ==
    /\ par.pc = "done"
    /\ par.total >= 2
    /\ par.returned[0] = "err"
    /\ par.returned[1] = "nil"
    /\ par.result = "err"

\* ------------------------------------------------------------------------
\* getPackageURL(spec)
\* ------------------------------------------------------------------------

UpperLetters == {"A", "B", "C", "D", "E", "F", "G", "H", "I", "J", "K", "L", "M",
                 "N", "O", "P", "Q", "R", "S", "T", "U", "V", "W", "X", "Y", "Z"}

GitHubPrefix == <<"h", "t", "t", "p", "s", ":", "/", "/", "g", "i", "t", "h", "u", "b", ".", "c", "o", "m", "/">>

MPRPrefix == <<"h", "t", "t", "p", "s", ":", "/", "/", "m", "p", "r", ".", "m", "a", "k", "e", "d", "e", "b", ".", "o", "r", "g", "/">>

\* regexp.MatchString(`^([^/:]+)/([^/:]+)$`, spec)
matchUserRepo(spec) ==
    \E k \in 2..(Len(spec) - 1) :
       /\ spec[k] = "/"
       /\ \A j \in (1..Len(spec)) \ {k} : spec[j] \notin {"/", ":"}

\* the second pattern without its (?i) flag
matchID_caseSensitive(spec) ==
    /\ spec # <<>>
    /\ \A j \in 1..Len(spec) : spec[j] \in Letters \cup Digits \cup {"_", "-"}

\* regexp.MatchString(`(?i)^[a-z0-9_-]+$`, spec)
matchID(spec) ==
    /\ spec # <<>>
    /\ \A j \in 1..Len(spec) :
          spec[j] \in Letters \cup UpperLetters \cup Digits \cup {"_", "-"}

\* func getPackageURL(spec string) string
getPackageURL(spec) ==
    IF matchUserRepo(spec) THEN GitHubPrefix \o spec
    ELSE IF matchID(spec) THEN MPRPrefix \o spec
    ELSE spec

\* longest generated package spec
MaxSpecLen == 3

SpecChars == {"a", "B", "1", "-", ".", "/", ":"}

mprSpec == <<"m", "p", "r">>

userRepoSpec == <<"u", "s", "e", "r", "/", "r", "e", "p", "o", "_", "1">>

\* the spec of the README's install command
readmeSpec == <<"m", "p", "r", ".", "m", "a", "k", "e", "d", "e", "b", ".", "o", "r", "g", "/", "m", "p", "r">>

readmeBinSpec == <<"m", "p", "r", ".", "m", "a", "k", "e", "d", "e", "b", ".", "o", "r", "g", "/", "m", "p", "r", "-", "b", "i", "n">>

gitURLSpec == <<"h", "t", "t", "p", "s", ":", "/", "/", "x", ".", "o", "r", "g", "/", "u", "/", "r", ".", "g", "i", "t">>

PackageSpecs ==
    {SubSeq(f, 1, Len(f)) : f \in UNION {[1..n -> SpecChars] : n \in 0..MaxSpecLen}}
       \cup {mprSpec, userRepoSpec, readmeSpec, readmeBinSpec, gitURLSpec}

GetPackageURL(spec) ==
    /\ call = CallIdle
    /\ call' = [fn |-> "getPackageURL", arg |-> spec, out |-> getPackageURL(spec)]
    /\ UNCHANGED <<docVars, par, inst, upd>>

\* a bare identifier: letters, digits, `_` and `-`
IsBareId(s) ==
    /\ Len(s) >= 1
    /\ {s[j] : j \in 1..Len(s)}
          \subseteq Letters \cup UpperLetters \cup Digits \cup {"_", "-"}

\* user/repo: two non-empty parts without `/` or `:`
IsUserRepo(s) ==
    /\ Len(Split(s, <<"/">>)) = 2
    /\ Split(s, <<"/">>)[1] # <<>>
    /\ Split(s, <<"/">>)[2] # <<>>
    /\ ":" \notin {s[j] : j \in 1..Len(s)}

C16_ReadmeInstall ==
    (call.fn = "getPackageURL" /\ call.arg \in {readmeSpec, readmeBinSpec})
       => HasPrefixAt(call.out, MPRPrefix, 0)

\* ------------------------------------------------------------------------
\* parseMakedebG(outputBytes)
\* ------------------------------------------------------------------------

\* `(?m)^[a-zA-Z0-9_]+=` matches at offset a of text s: a is the beginning
\* of the text or follows a newline, a run of name characters starts there
\* and `=` ends it
MatchesAt(s, a) ==
    /\ a < Len(s)
    /\ a = 0 \/ At(s, a - 1) = NL
    /\ NameEnd(s, a) > a
    /\ NameEnd(s, a) < Len(s)
    /\ At(s, NameEnd(s, a)) = EQ

\* reg.FindAllIndex(s, -1): the offsets where the matches start, in order
RECURSIVE FindAllFrom(_, _)
FindAllFrom(s, a) ==
    IF a >= Len(s) THEN <<>>
    ELSE IF MatchesAt(s, a) THEN <<a>> \o FindAllFrom(s, NameEnd(s, a) + 1)
    ELSE FindAllFrom(s, a + 1)

\* reg.FindIndex(s): <<start, end>> of the first match, <<>> for nil
FindIndex(s) ==
    IF FindAllFrom(s, 0) = <<>> THEN <<>>
    ELSE <<FindAllFrom(s, 0)[1], NameEnd(s, FindAllFrom(s, 0)[1]) + 1>>

\* one round of the loop of parseMakedebG for the match that starts at a;
\* nextMatch is what FindIndex returned for outputBytes[b:]
declOf(out, a, nextMatch) ==
    TrimSpace(Slice(out, a, IF nextMatch = <<>> THEN Len(out)
                            ELSE a + nextMatch[2]))

RECURSIVE parseMatches(_, _, _)
parseMatches(out, matches, varsToReplace) ==
    IF matches = <<>> THEN varsToReplace
    ELSE parseMatches(out, Tail(matches),
            MapPut(varsToReplace,
                   Split(declOf(out, Head(matches),
                                FindIndex(SliceFrom(out, NameEnd(out, Head(matches)) + 1))),
                         <<EQ>>)[1],
                   Split(declOf(out, Head(matches),
                                FindIndex(SliceFrom(out, NameEnd(out, Head(matches)) + 1))),
                         <<EQ>>)[2]))

\* func parseMakedebG(outputBytes []byte) map[string]string
parseMakedebG(out) == parseMatches(out, FindAllFrom(out, 0), EmptyMap)

\* most declarations of one output
MaxDecls == 3

DeclNames == {<<"a">>, <<"b", "c", "d">>, <<"e", "f">>}

DeclValues == {<<"1">>, <<"2", "2">>}

\* sequences of declarations with pairwise distinct names
DeclSeqs ==
    {SubSeq(ds, 1, Len(ds)) :
        ds \in {f \in UNION {[1..n -> [name : DeclNames, value : DeclValues]] :
                                n \in 1..MaxDecls} :
                   \A i, j \in DOMAIN f : i # j => f[i].name # f[j].name}}

\* the output `makedeb -g` prints for the declarations: one per line
RECURSIVE OutputOf(_)
OutputOf(ds) ==
    IF ds = <<>> THEN <<>>
    ELSE Assign(Head(ds).name, Head(ds).value) \o <<NL>> \o OutputOf(Tail(ds))

ParseMakedebG(ds) ==
    /\ call = CallIdle
    /\ call' = [fn |-> "parseMakedebG", arg |-> ds, out |-> parseMakedebG(OutputOf(ds))]
    /\ UNCHANGED <<docVars, par, inst, upd>>

InitFn ==
    /\ p = NewPKGBUILDFromContents(<<>>)
    /\ fs = [file |-> <<>>, cwd |-> {}, scratch |-> {}]
    /\ runs = 0
    /\ faults = 0
    /\ ret = NoRet
    /\ par = ParIdle
    /\ call = CallIdle
    /\ inst = InstIdle
    /\ upd = UpdIdle

NextFn ==
    \/ \E spec \in PackageSpecs : GetPackageURL(spec)
    \/ \E ds \in DeclSeqs : ParseMakedebG(ds)

SpecFn == InitFn /\ [][NextFn]_vars

\* C17 (parseMakedebG): for an output of N declarations name=value, one per
\* line start, with pairwise distinct names of any lengths, the result has
\* exactly N entries and maps each name to its own value.
C17_ParseMakedebG ==
    call.fn = "parseMakedebG"
       => /\ DOMAIN call.out = {call.arg[i].name : i \in 1..Len(call.arg)}
          /\ \A i \in 1..Len(call.arg) :
                call.out[call.arg[i].name] = call.arg[i].value

\* ------------------------------------------------------------------------
\* install, update, outdated, upgrade and the install receipts
\* ------------------------------------------------------------------------

\* newest commit of a repository
MaxHead == 2

\* the pkgname the PKGBUILD of each repository declares: repository b
\* declares pkgname=c
PkgNameOf == [d \in Dirs |-> IF d = "a" THEN "a" ELSE "c"]

\* the names of the model in the order of sort.Strings
PkgOrder == <<"a", "b", "c">>

\* func listPackages(): the pkgname of every cloned directory, sorted
listPackages(st) ==
    LET Listed(n) == \E d \in st.dirs : PkgNameOf[d] = n
    IN  SelectSeq(PkgOrder, Listed)

\* func getPkgHEADCommitHash(pkg): `git rev-parse HEAD` run in
\* mprDir(pkg); the command cannot start in a directory that does not exist
getPkgHEADCommitHash(st, pkg) ==
    IF pkg \in st.dirs THEN [hash |-> st.head[pkg], err |-> "nil"]
    ELSE [hash |-> 0, err |-> "HeadFailure"]

\* func readMakedebInstallReceipt(pkg): a missing file reads as ""
readMakedebInstallReceipt(st, pkg) ==
    IF pkg \in st.dirs THEN st.receipt[pkg] ELSE 0

\* func isBehind(pkg)
isBehind(st, pkg) ==
    IF getPkgHEADCommitHash(st, pkg).err # "nil"
    THEN [behind |-> TRUE, err |-> getPkgHEADCommitHash(st, pkg).err]
    ELSE [behind |-> readMakedebInstallReceipt(st, pkg)
                        # getPkgHEADCommitHash(st, pkg).hash,
          err |-> "nil"]

\* func updateMakedebInstallReceipt(pkg)
updateMakedebInstallReceipt(st, pkg) ==
    IF getPkgHEADCommitHash(st, pkg).err # "nil" THEN st
    ELSE [st EXCEPT !.receipt[pkg] = getPkgHEADCommitHash(st, pkg).hash]

\* `makedeb -si` succeeded in the directory of pkg: the package built there
\* is the one of its HEAD
buildDone(st, pkg) == [st EXCEPT !.built[pkg] = st.head[pkg]]

\* func runInstall(args): clone the repository at commit h into directory
\* d, build it, write the receipt.  A failed build ends the process and
\* leaves the clone.
runInstall(st, d, h, cloneOK, buildOK) ==
    IF d \in st.dirs \/ ~cloneOK
    THEN [st EXCEPT !.last = [NoLast EXCEPT !.op = "install", !.arg = <<d>>,
                                           !.err = "CloneFailure"]]
    ELSE IF ~buildOK
    THEN [st EXCEPT !.dirs = @ \cup {d}, !.head[d] = h,
                    !.last = [NoLast EXCEPT !.op = "install", !.arg = <<d>>,
                                           !.attempted = {d}, !.err = "exit"]]
    ELSE [updateMakedebInstallReceipt(
             buildDone([st EXCEPT !.dirs = @ \cup {d}, !.head[d] = h], d), d)
          EXCEPT !.last = [NoLast EXCEPT !.op = "install", !.arg = <<d>>,
                                        !.attempted = {d}]]

\* the `git pull` of runUpdate in the directory of every listed package;
\* remote[d] is the newest commit of repository d.  The pull of a package
\* whose directory does not exist fails.
RECURSIVE pullAll(_, _, _, _)
pullAll(st, pkgs, remote, failedPackages) ==
    IF pkgs = <<>>
    THEN [st EXCEPT !.last = [NoLast EXCEPT !.op = "update",
                                 !.err = IF failedPackages = {} THEN "nil"
                                         ELSE "UpdateFailure"]]
    ELSE IF Head(pkgs) \in st.dirs
    THEN pullAll([st EXCEPT !.head[Head(pkgs)] = remote[Head(pkgs)]],
                 Tail(pkgs), remote, failedPackages)
    ELSE pullAll(st, Tail(pkgs), remote, failedPackages \cup {Head(pkgs)})

\* func runUpdate(packagesToUpdate) for all packages
runUpdate(st, remote) == pullAll(st, listPackages(st), remote, {})

\* the loop of runOutdated; the names are printed after the loop, so an
\* error prints none
RECURSIVE outdatedFrom(_, _, _)
outdatedFrom(st, pkgs, outdatedPkgs) ==
    IF pkgs = <<>>
    THEN [NoLast EXCEPT !.op = "outdated", !.listed = outdatedPkgs]
    ELSE IF isBehind(st, Head(pkgs)).err # "nil"
    THEN [NoLast EXCEPT !.op = "outdated", !.err = isBehind(st, Head(pkgs)).err]
    ELSE outdatedFrom(st, Tail(pkgs),
                      IF isBehind(st, Head(pkgs)).behind
                      THEN Append(outdatedPkgs, Head(pkgs)) ELSE outdatedPkgs)

\* func runOutdated()
runOutdated(st) == [st EXCEPT !.last = outdatedFrom(st, listPackages(st), <<>>)]

\* the loop of runUpgrade; failing are the directories where makedeb fails
RECURSIVE upgradeFrom(_, _, _, _, _)
upgradeFrom(st, pkgs, failing, attempted, arg) ==
    IF pkgs = <<>>
    THEN [st EXCEPT !.last = [NoLast EXCEPT !.op = "upgrade", !.arg = arg,
                                           !.attempted = attempted]]
    ELSE IF isBehind(st, Head(pkgs)).err # "nil"
    THEN [st EXCEPT !.last = [NoLast EXCEPT !.op = "upgrade", !.arg = arg,
                                 !.attempted = attempted,
                                 !.err = isBehind(st, Head(pkgs)).err]]
    ELSE IF ~isBehind(st, Head(pkgs)).behind
    THEN upgradeFrom(st, Tail(pkgs), failing, attempted, arg)
    ELSE IF Head(pkgs) \in failing
    THEN [st EXCEPT !.last = [NoLast EXCEPT !.op = "upgrade", !.arg = arg,
                                 !.attempted = attempted \cup {Head(pkgs)},
                                 !.err = "BuildFailure"]]
    ELSE upgradeFrom(updateMakedebInstallReceipt(buildDone(st, Head(pkgs)),
                                                 Head(pkgs)),
                     Tail(pkgs), failing, attempted \cup {Head(pkgs)}, arg)

\* func runUpgrade(args): args.packages must all be listed; none given
\* means every listed package
runUpgrade(st, packages, failing) ==
    IF \E i \in 1..Len(packages) :
          ~\E j \in 1..Len(listPackages(st)) : listPackages(st)[j] = packages[i]
    THEN [st EXCEPT !.last = [NoLast EXCEPT !.op = "upgrade", !.arg = packages,
                                           !.err = "NotInstalled"]]
    ELSE upgradeFrom(st, IF packages = <<>> THEN listPackages(st) ELSE packages,
                     failing, {}, packages)

RunInstall(d, h, cloneOK, buildOK) ==
    /\ inst' = runInstall(inst, d, h, cloneOK, buildOK)
    /\ UNCHANGED <<docVars, par, call, upd>>

\* `mpr update`; the remote repositories never lose commits
RunUpdate(remote) ==
    /\ \A d \in inst.dirs : remote[d] >= inst.head[d]
    /\ inst' = runUpdate(inst, remote)
    /\ UNCHANGED <<docVars, par, call, upd>>

RunOutdated ==
    /\ inst' = runOutdated(inst)
    /\ UNCHANGED <<docVars, par, call, upd>>

RunUpgrade(packages, failing) ==
    /\ inst' = runUpgrade(inst, packages, failing)
    /\ UNCHANGED <<docVars, par, call, upd>>

InitInst ==
    /\ p = NewPKGBUILDFromContents(<<>>)
    /\ fs = [file |-> <<>>, cwd |-> {}, scratch |-> {}]
    /\ runs = 0
    /\ faults = 0
    /\ ret = NoRet
    /\ par = ParIdle
    /\ call = CallIdle
    /\ inst = InstIdle
    /\ upd = UpdIdle

NextInst ==
    \/ \E d \in Dirs, h \in 1..MaxHead, cloneOK \in BOOLEAN, buildOK \in BOOLEAN :
          RunInstall(d, h, cloneOK, buildOK)
    \/ \E remote \in [Dirs -> 1..MaxHead] : RunUpdate(remote)
    \/ RunOutdated
    \/ \E packages \in {<<>>, <<"a">>, <<"c">>, <<"b">>}, failing \in SUBSET Dirs :
          RunUpgrade(packages, failing)

SpecInst == InitInst /\ [][NextInst]_vars

\* the cloned packages whose receipt differs from their HEAD
Outdated(st) == {d \in st.dirs : st.receipt[d] # st.head[d]}

\* C18 (install / update / upgrade workflow): after every command the
\* receipt of each package is the HEAD of its most recent successful build
\* (none if there was none); `outdated` lists exactly the packages whose
\* receipt differs from their HEAD; `upgrade` builds only such packages and
\* a successful upgrade run of all packages builds all of them and leaves
\* none outdated; a failed build leaves the receipt as it was.
C18_Workflow ==
    [][ /\ \A d \in inst'.dirs : inst'.receipt[d] = inst'.built[d]
        /\ inst'.last.op = "outdated"
              => /\ inst'.last.err = "nil"
                 /\ {inst'.last.listed[i] : i \in 1..Len(inst'.last.listed)}
                       = {PkgNameOf[d] : d \in Outdated(inst)}
        /\ inst'.last.op = "upgrade"
              => /\ inst'.last.attempted \subseteq Outdated(inst)
                 /\ (inst'.last.err = "nil" /\ inst'.last.arg = <<>>)
                       => /\ inst'.last.attempted = Outdated(inst)
                          /\ Outdated(inst') = {}
        /\ inst'.last.err \in {"exit", "BuildFailure"}
              => \A d \in inst.dirs : inst'.receipt[d] = inst.receipt[d]
                                          \/ d \in inst'.last.attempted
      ]_vars

\* ------------------------------------------------------------------------
\* The value span of a quoted assignment
\* ------------------------------------------------------------------------

\* offset where the value of the patched variable starts in text s
ValueStart(s, name) == varPrefixStart(s, name) + Len(name) + 1

\* offsets after start of the quotes of the kind that opens the value at
\* start and that no backslash immediately precedes
ClosingQuotes(s, start) ==
    {e \in (start + 1)..(Len(s) - 1) :
        At(s, e) = At(s, start) /\ At(s, e - 1) # BS}

\* the first of them
ClosingQuote(s, start) ==
    CHOOSE e \in ClosingQuotes(s, start) :
       \A o \in ClosingQuotes(s, start) : e <= o

\* C19 (quoted value span): when the character after `name=` is a single or
\* a double quote, a successful updateVar replaces the text from that quote
\* to just past the next quote of the same kind that no backslash
\* immediately precedes; an escaped quote inside the value does not end
\* the span.
C19_QuotedSpan ==
    [][ ( /\ ret'.op = "updateVar"
          /\ ret'.err = "nil"
          /\ At(CurrentText, ValueStart(CurrentText, ret'.name)) \in {SQ, DQ}
          /\ ClosingQuotes(CurrentText, ValueStart(CurrentText, ret'.name)) # {} )
        => p'.contents =
              Slice(CurrentText, 0, ValueStart(CurrentText, ret'.name))
                \o ret'.lit
                \o SliceFrom(CurrentText,
                      ClosingQuote(CurrentText,
                                   ValueStart(CurrentText, ret'.name)) + 1)
      ]_vars

\* ------------------------------------------------------------------------
\* I/O failures of the extraction
\* ------------------------------------------------------------------------

\* C20 (extraction I/O failure is reported): if creating the scratch
\* directory fails (the harness files then land in the working directory),
\* or writing the PKGBUILD copy or the helper script fails, getVariables
\* returns an error, returns no mapping, and does not run the harness.
C20_IOFailureReported ==
    [][ ( /\ ret'.op = "getVariables"
          /\ ~p.allVariablesOnce
          /\ fs'.cwd # fs.cwd \/ ret'.err = "WriteFailure" )
        => /\ ret'.err # "nil"
           /\ ret'.val = NilVars
           /\ ~ret'.ran
      ]_vars

\* ------------------------------------------------------------------------
\* getVariables on what the harness printed
\* ------------------------------------------------------------------------

\* longest harness output of the runs below
MaxOutLen == 4

OutChars == {"a", EQ, NL, SP}

RECURSIVE OutputsOfLen(_)
OutputsOfLen(n) ==
    IF n = 0 THEN {<<>>}
    ELSE {Append(o, c) : o \in OutputsOfLen(n - 1), c \in OutChars}

Outputs == UNION {OutputsOfLen(n) : n \in 0..MaxOutLen}

\* getVariables on a fresh document for which `bash pkgbuild-var-printer.sh`
\* prints out: the body of allVariablesOnce.Do from cmd.Output() on
GetVariablesOf(out) ==
    \E r \in {extractOnce(fs, "ok", readContents(p, fs, "ok"), ParseOutput(out))} :
        /\ call = CallIdle
        /\ ~p.allVariablesOnce
        /\ Called(r, r.ran)
        /\ p' = r.p
        /\ fs' = r.fs
        /\ call' = [fn |-> "cmd.Output", arg |-> out, out |-> <<>>]
        /\ UNCHANGED <<par, inst, upd>>
        /\ ret' = [NoRet EXCEPT !.op = "getVariables", !.val = r.val,
                                 !.err = r.err, !.ran = r.ran]

NextParse == \E out \in Outputs : GetVariablesOf(out)

SpecParse == InitFn /\ [][NextParse]_vars

\* the lines of the output that are not blank, in order
RECURSIVE NonBlank(_)
NonBlank(lines) ==
    IF lines = <<>> THEN <<>>
    ELSE IF \A i \in 1..Len(Head(lines)) : IsSpace(Head(lines)[i])
    THEN NonBlank(Tail(lines))
    ELSE <<Head(lines)>> \o NonBlank(Tail(lines))

\* position (from 1) of the first `=` of a line that has one
FirstEq(line) ==
    CHOOSE i \in 1..Len(line) :
        line[i] = EQ /\ \A j \in 1..(i - 1) : line[j] # EQ

LineName(line) == SubSeq(line, 1, FirstEq(line) - 1)

LineValue(line) == SubSeq(line, FirstEq(line) + 1, Len(line))

\* the values of the lines named n, in order
RECURSIVE ValuesNamed(_, _)
ValuesNamed(lines, n) ==
    IF lines = <<>> THEN <<>>
    ELSE IF LineName(Head(lines)) = n
    THEN <<LineValue(Head(lines))>> \o ValuesNamed(Tail(lines), n)
    ELSE ValuesNamed(Tail(lines), n)

HasEq(line) == \E i \in 1..Len(line) : line[i] = EQ

\* C21 (output line parsing): every non-blank output line is split at its
\* first `=` only, the name being the text before it and the value all the
\* text after it; blank lines are skipped; if a non-blank line has no `=`
\* the extraction fails with an error and no mapping is cached or returned.
C21_LineParsing ==
    call.fn = "cmd.Output"
       => \E lines \in {NonBlank(Split(call.arg, <<NL>>))} :
             IF \A i \in 1..Len(lines) : HasEq(lines[i])
             THEN /\ ret.err = "nil"
                  /\ ret.val = p.allVariables
                  /\ ret.val # NilVars
                  /\ DOMAIN ret.val[1] =
                        {LineName(lines[i]) : i \in 1..Len(lines)}
                  /\ \A n \in DOMAIN ret.val[1] :
                        ret.val[1][n] = ValuesNamed(lines, n)
             ELSE /\ ret.err # "nil"
                  /\ ret.val = NilVars
                  /\ p.allVariables = NilVars

\* a value that holds a `=`, next to a blank line
C21_Witness ==
    /\ call.fn = "cmd.Output"
    /\ ret.err = "nil"
    /\ \E i \in 1..Len(call.arg) : call.arg[i] = NL
    /\ \E n \in DOMAIN ret.val[1] :
          \E k \in 1..Len(ret.val[1][n]) : HasEq(ret.val[1][n][k])

\* ------------------------------------------------------------------------
\* The merge and the cached mapping
\* ------------------------------------------------------------------------

\* C22 (purity of the architecture merge): getVariablesMerged does not
\* modify the cached raw mapping, and two successive getVariablesMerged
\* calls on an unchanged document return equal mappings.
C22_MergePure ==
    [][ (ret'.op = "getVariablesMerged" /\ p.allVariablesOnce)
           => /\ p'.allVariables = p.allVariables
              /\ ret.op = "getVariablesMerged" => ret'.val = ret.val
      ]_vars

\* the merged view of a text: host-architecture values folded into the
\* base names of its extracted mapping
MergedView(text) ==
    mergeArch(Extract(text).vars, SortNames(DOMAIN Extract(text).vars))

\* C23 (accessors read the merged view): getVariable(name) on a freshly
\* extracted document returns the values of name with the values of
\* name_<hostArch> appended, and getSources returns one entry per merged
\* source, in that order, each with the merged hash at its position.
C23_MergedAccessors ==
    [][ \E mv \in {MergedView(CurrentText)} :
          /\ (ret'.op = "getVariable" /\ ret'.ran /\ ret'.name \in DOMAIN mv)
                => ret'.err = "nil" /\ ret'.val = mv[ret'.name]
          /\ (ret'.op = "getSources" /\ ret'.ran /\ ret'.err = "nil"
                 /\ source \in DOMAIN mv /\ sha256sums \in DOMAIN mv
                 /\ md5sums \notin DOMAIN mv)
                => /\ Len(ret'.val) = Len(mv[source])
                   /\ \A i \in 1..Len(ret'.val) :
                         /\ ret'.val[i].remoteURL = mv[source][i]
                         /\ i <= Len(mv[sha256sums])
                         /\ ret'.val[i].hash = mv[sha256sums][i]
      ]_vars

\* ------------------------------------------------------------------------
\* updateVar at the edges of its domain
\* ------------------------------------------------------------------------

\* texts whose value is empty at end-of-text, an unclosed quote or an
\* unclosed parenthesis, next to complete ones
EdgeDocs ==
    { pre \o Assign(nV, lit) \o post :
        pre \in {<<>>, Assign(nXV, <<"a">>) \o <<NL>>},
        lit \in {<<>>, <<"a">>, <<SQ, "a">>, <<DQ, "a">>, <<DQ, "a", BS, DQ>>,
                 <<LP, "a">>, <<LP, "a", RP>>},
        post \in {<<>>, <<NL>> \o Assign(nW, <<"b">>)} }

InitEdge == InitDoc(EdgeDocs)

NextEdge == \E name \in UpdateNames, lit \in Literals : UpdateVar(name, lit, "ok")

SpecEdge == InitEdge /\ [][NextEdge]_vars

\* C24 (updateVar is total on its domain): for every text that contains
\* `name=` and every replacement literal, updateVar completes without an
\* out-of-range access or panic and replaces a span start..end of the text
\* with start <= end <= length of the text, start being just after `name=`.
C24_UpdateVarTotal ==
    [][ (ret'.op = "updateVar" /\ varPrefixStart(CurrentText, ret'.name) # -1)
          => /\ ret'.err = "nil"
             /\ \E end \in ValueStart(CurrentText, ret'.name)..Len(CurrentText) :
                   p'.contents =
                      Slice(CurrentText, 0, ValueStart(CurrentText, ret'.name))
                        \o ret'.lit \o SliceFrom(CurrentText, end)
      ]_vars

\* C25 (exact name): a successful updateVar(name, v) on a text that assigns
\* name puts v where the value of the assignment of name starts, and leaves
\* the value of every variable assigned before it whose name ends with name
\* as it was (`pkgname=foo` before `name=bar`).
C25_ExactName ==
    [][ ( /\ ret'.op = "updateVar"
          /\ ret'.err = "nil"
          /\ Assigns(CurrentText, ret'.name) )
        => \E a \in {AssignmentOf(CurrentText, ret'.name)} :
             /\ HasPrefixAt(p'.contents, ret'.lit, a.valueStart)
             /\ \A n \in DOMAIN ShellSource(CurrentText) :
                   \E b \in {AssignmentOf(CurrentText, n)} :
                      ( /\ n # ret'.name
                        /\ HasSuffix(n, ret'.name)
                        /\ b.valueEnd <= a.valueStart )
                      => Slice(p'.contents, b.valueStart, b.valueEnd)
                            = Slice(CurrentText, b.valueStart, b.valueEnd)
      ]_vars

\* ------------------------------------------------------------------------
\* The repology name of a package
\* ------------------------------------------------------------------------

pkgname == <<"p", "k", "g", "n", "a", "m", "e">>

repology_pkgname == <<"r", "e", "p", "o", "l", "o", "g", "y", "_">> \o pkgname

pkgver == <<"p", "k", "g", "v", "e", "r">>

SufBin == <<"-", "b", "i", "n">>

SufGit == <<"-", "g", "i", "t">>

SKIP == <<"S", "K", "I", "P">>

\* the second half of getRepologyPkgname: s is what getVariable("pkgname")
\* returned after getVariable("repology_pkgname") returned r with an error.
\* val is the slice the cached map holds, so `val[0] = ...` writes the
\* trimmed name into the cached mapping.
trimPkgname(r, s) ==
    IF s.err # "nil"
    THEN [s EXCEPT !.val = <<>>, !.err = "NotFound", !.ran = r.ran]
    ELSE [s EXCEPT !.val = TrimSuffix(TrimSuffix(s.val[1], SufBin), SufGit),
                   !.ran = r.ran,
                   !.p.allVariables =
                       Ptr([s.p.allVariables[1] EXCEPT ![pkgname][1] =
                              TrimSuffix(TrimSuffix(s.val[1], SufBin), SufGit)])]

\* getRepologyPkgname once getVariable("repology_pkgname") returned r
repologyOrPkgname(r) ==
    IF r.err = "nil" THEN [r EXCEPT !.val = r.val[1]]
    ELSE trimPkgname(r, getVariable(r.p, r.fs, pkgname, "ok"))

\* func (p *PKGBUILD) getRepologyPkgname()
getRepologyPkgname(d, f) ==
    repologyOrPkgname(getVariable(d, f, repology_pkgname, "ok"))

\* what https://repology.org/api/v1/project/<name> answers: the request
\* fails, no entry has status "newest", or the newest version
HTTPResults == {"getFail", "noVersions", "2"}

\* getLatestRepologyPkgVersion once getRepologyPkgname returned g
latestOf(g, http) ==
    IF g.err # "nil" THEN [g EXCEPT !.val = <<>>]
    ELSE IF g.val = SKIP THEN [g EXCEPT !.val = SKIP]
    ELSE IF http = "getFail" THEN [g EXCEPT !.val = <<>>, !.err = "HTTPFailure"]
    ELSE IF http = "noVersions" THEN [g EXCEPT !.val = <<>>, !.err = "NoVersions"]
    ELSE [g EXCEPT !.val = <<http>>]

\* func (p *PKGBUILD) getLatestRepologyPkgVersion()
getLatestRepologyPkgVersion(d, f, http) == latestOf(getRepologyPkgname(d, f), http)

GetRepologyPkgname ==
    \E r \in {getRepologyPkgname(p, fs)} :
        /\ Called(r, r.ran)
        /\ p' = r.p
        /\ fs' = r.fs
        /\ UNCHANGED nonDoc
        /\ ret' = [NoRet EXCEPT !.op = "getRepologyPkgname", !.val = r.val,
                                 !.err = r.err, !.ran = r.ran]

GetLatestRepologyPkgVersion(http) ==
    \E r \in {getLatestRepologyPkgVersion(p, fs, http)} :
        /\ Called(r, r.ran)
        /\ p' = r.p
        /\ fs' = r.fs
        /\ UNCHANGED nonDoc
        /\ ret' = [NoRet EXCEPT !.op = "getLatestRepologyPkgVersion",
                                 !.val = r.val, !.err = r.err, !.ran = r.ran]

\* package names with and without the -bin / -git suffixes
PkgNames == { <<"a">>, <<"a">> \o SufBin, <<"a">> \o SufGit,
              <<"a">> \o SufGit \o SufBin, SKIP, SKIP \o SufBin }

RepoDocs ==
    { JoinLines(<<r, Assign(pkgname, n), v>>) :
        r \in {<<>>, Assign(repology_pkgname, <<"b">>),
                     Assign(repology_pkgname, SKIP)},
        n \in PkgNames,
        v \in {<<>>, Assign(pkgver, <<"1">>)} }
      \cup {Assign(pkgver, <<"1">>)}

InitRepo == InitDoc(RepoDocs)

NextRepo ==
    \/ GetVariables("ok")
    \/ GetSingleVariable(pkgname, "ok")
    \/ GetRepologyPkgname
    \/ \E http \in HTTPResults : GetLatestRepologyPkgVersion(http)

SpecRepo == InitRepo /\ [][NextRepo]_vars

\* C26 (getRepologyPkgname is read-only): a call of getRepologyPkgname or
\* of getLatestRepologyPkgVersion leaves the cached variable mapping as it
\* was, and getSingleVariable("pkgname") returns the same value, suffix
\* included, after the call as before it.
C26_RepologyReadOnly ==
    [][ ret'.op \in {"getRepologyPkgname", "getLatestRepologyPkgVersion"}
          => /\ p.allVariablesOnce => p'.allVariables = p.allVariables
             /\ \E before \in {getSingleVariable(p, fs, pkgname, "ok")} :
                   \E after \in {getSingleVariable(p', fs', pkgname, "ok")} :
                      after.val = before.val /\ after.err = before.err
      ]_vars

\* ------------------------------------------------------------------------
\* runUpdate: the pulls run through doParallel
\* ------------------------------------------------------------------------

\* most packages of one update
MaxPkgs == 2

\* the second argument of doParallel in runUpdate
UpdateConcurrency == 10

\* the packages listPackages returns, in order
PkgList(n) == [k \in 1..n |-> k]

\* runUpdate up to its call of doParallel: the list of packages and an
\* empty failedPackages.  stage[k] is where the work function of item k
\* stands, local[k] the slice header it read for its append.
UpdateEnter(n) ==
    /\ upd.pc = "idle"
    /\ par.pc = "idle"
    /\ upd' = [pc |-> "parallel", packages |-> PkgList(n),
                stage |-> [k \in Items(n) |-> "pull"],
                pulled |-> [k \in Items(n) |-> "none"],
                local |-> [k \in Items(n) |-> <<>>],
                failedPackages |-> <<>>,
                named |-> <<>>, err |-> "none"]
    /\ UNCHANGED <<docVars, par, call, inst>>

\* doParallel(len(packages), 10, work) is entered
UpdateDoParallel ==
    /\ upd.pc = "parallel"
    /\ DoParallel(Len(upd.packages), UpdateConcurrency)

\* work(k): `git pull` in the package's directory ends, well or not
UpdatePull(k, ok) ==
    /\ upd.pc = "parallel"
    /\ par.pc # "idle"
    /\ k \in Items(par.total)
    /\ par.g[k] = "working"
    /\ upd.stage[k] = "pull"
    /\ upd' = [upd EXCEPT !.pulled[k] = IF ok THEN "ok" ELSE "fail",
                           !.stage[k] = IF ok THEN "return" ELSE "read"]
    /\ UNCHANGED <<docVars, par, call, inst>>

\* `failedPackages = append(failedPackages, pkg)` holds no lock: the
\* goroutine reads the slice ...
UpdateReadFailed(k) ==
    /\ upd.pc = "parallel"
    /\ k \in DOMAIN upd.stage
    /\ upd.stage[k] = "read"
    /\ upd' = [upd EXCEPT !.local[k] = upd.failedPackages, !.stage[k] = "append"]
    /\ UNCHANGED <<docVars, par, call, inst>>

\* ... and stores the slice it read with pkg appended
UpdateAppendFailed(k) ==
    /\ upd.pc = "parallel"
    /\ k \in DOMAIN upd.stage
    /\ upd.stage[k] = "append"
    /\ upd' = [upd EXCEPT !.failedPackages =
                              Append(upd.local[k], upd.packages[k + 1]),
                           !.stage[k] = "return"]
    /\ UNCHANGED <<docVars, par, call, inst>>

\* work(k) returns nil
UpdateWorkReturn(k) ==
    /\ upd.pc = "parallel"
    /\ k \in DOMAIN upd.stage
    /\ upd.stage[k] = "return"
    /\ WorkReturn(k, "nil")

\* doParallel has returned: runUpdate returns its error, or the error that
\* names failedPackages, or goes on to runOutdated / runUpgrade
UpdateReturn ==
    /\ upd.pc = "parallel"
    /\ par.pc = "done"
    /\ upd' = [upd EXCEPT !.pc = "done",
                           !.named = IF par.result = "nil"
                                     THEN upd.failedPackages ELSE <<>>,
                           !.err = IF par.result # "nil" THEN par.result
                                   ELSE IF Len(upd.failedPackages) > 0
                                   THEN "UpdateFailed" ELSE "nil"]
    /\ UNCHANGED <<docVars, par, call, inst>>

NextUpd ==
    \/ \E n \in 0..MaxPkgs : UpdateEnter(n)
    \/ UpdateDoParallel
    \/ LoopAcquire
    \/ LoopExit
    \/ \E k \in 0..(MaxPkgs - 1) : WorkStart(k)
    \/ \E k \in 0..(MaxPkgs - 1), ok \in BOOLEAN : UpdatePull(k, ok)
    \/ \E k \in 0..(MaxPkgs - 1) : UpdateReadFailed(k)
    \/ \E k \in 0..(MaxPkgs - 1) : UpdateAppendFailed(k)
    \/ \E k \in 0..(MaxPkgs - 1) : UpdateWorkReturn(k)
    \/ \E k \in 0..(MaxPkgs - 1) : Release(k)
    \/ WaitAll
    \/ UpdateReturn

SpecUpd == InitPar /\ [][NextUpd]_vars

\* C27 (failure reporting under concurrency): in every interleaving, when
\* runUpdate returns, each package whose pull failed is in failedPackages
\* and the returned error names it.
C27_AllFailuresNamed ==
    upd.pc = "done"
       => \A k \in DOMAIN upd.pulled :
             upd.pulled[k] = "fail"
                => /\ upd.err = "UpdateFailed"
                   /\ \E j \in 1..Len(upd.named) : upd.named[j] = upd.packages[k + 1]

\* ------------------------------------------------------------------------
\* The package directory of runClone and of runInstall
\* ------------------------------------------------------------------------

DotGit == <<".", "g", "i", "t">>

\* runClone: the directory name handed to `git clone url pkg`
cloneDirOf(spec) ==
    TrimSuffix(IF Contains(Base(getPackageURL(spec)), <<":">>)
               THEN Split(Base(getPackageURL(spec)), <<":">>)[2]
               ELSE Base(getPackageURL(spec)),
               DotGit)

\* runInstall: the pkg of mprDir(pkg, "PKGBUILD"), of makedeb's cmd.Dir
\* and of updateMakedebInstallReceipt(pkg)
installDirOf(spec) == Base(getPackageURL(spec))

\* runInstall(spec) when the clone succeeds: the directory cloned into and
\* the directory the build and the receipt use
RunInstallIn(spec) ==
    /\ call = CallIdle
    /\ call' = [fn |-> "runInstall", arg |-> spec,
                 out |-> <<cloneDirOf(spec), installDirOf(spec)>>]
    /\ UNCHANGED <<docVars, par, inst, upd>>

NextDir == \E spec \in PackageSpecs : RunInstallIn(spec)

SpecDir == InitFn /\ [][NextDir]_vars

\* C28 (runInstall operates on the directory it cloned): for every package
\* spec, URLs ending in `.git` and specs containing `:` included, the
\* directory in which runInstall opens the PKGBUILD, runs makedeb and writes
\* the receipt is the directory runClone cloned into (a clone into the
\* empty name does not succeed).
C28_SameDirectory ==
    (call.fn = "runInstall" /\ call.out[1] # <<>>) => call.out[2] = call.out[1]

\* ------------------------------------------------------------------------
\* runUpdateVersion
\* ------------------------------------------------------------------------

\* the version runUpdateVersion writes: the one given, or for "" what
\* getLatestRepologyPkgVersion of a new PKGBUILD object returns
versionFor(f, newVersion, http) ==
    IF newVersion # <<>>
    THEN [p |-> NewPKGBUILD, fs |-> f, val |-> newVersion, err |-> "nil",
          ran |-> FALSE, hit |-> FALSE]
    ELSE getLatestRepologyPkgVersion(NewPKGBUILD, f, http)

\* runRecomputeSums after updateVar returned u.  The documents of the model
\* declare no sources, so `makedeb -g` prints no checksum variable and the
\* loop over varsToReplace patches nothing; makedeb itself may fail.
recomputeAfter(v, u, makedeb) ==
    IF u.err # "nil" THEN [p |-> u.p, fs |-> u.fs, err |-> u.err, ran |-> v.ran]
    ELSE IF makedeb = "fail"
    THEN [p |-> u.p, fs |-> u.fs, err |-> "MakedebFailure", ran |-> v.ran]
    ELSE [p |-> u.p, fs |-> u.fs, err |-> "nil", ran |-> v.ran]

\* runUpdateVersion once the version v is known: updateVar("pkgver", ...)
\* on a second new PKGBUILD object, then runRecomputeSums
patchVersion(v, makedeb) ==
    IF v.err # "nil" THEN [p |-> v.p, fs |-> v.fs, err |-> v.err, ran |-> v.ran]
    ELSE recomputeAfter(v, updateVar(NewPKGBUILD, v.fs, pkgver, v.val, "ok"),
                        makedeb)

\* func runUpdateVersion(pkgName, newVersion, edit)
runUpdateVersion(f, newVersion, http, makedeb) ==
    patchVersion(versionFor(f, newVersion, http), makedeb)

RunUpdateVersion(newVersion, http, makedeb) ==
    \E r \in {runUpdateVersion(fs, newVersion, http, makedeb)} :
        /\ runs' = IF r.ran /\ runs < MaxRuns THEN runs + 1 ELSE runs
        /\ UNCHANGED faults
        /\ p' = r.p
        /\ fs' = r.fs
        /\ UNCHANGED nonDoc
        /\ ret' = [NoRet EXCEPT !.op = "runUpdateVersion", !.name = pkgver,
                                 !.lit = newVersion, !.err = r.err,
                                 !.ran = r.ran]

NextVer ==
    \/ \E newVersion \in {<<>>, <<"3">>}, http \in HTTPResults,
          makedeb \in {"ok", "fail"} :
            RunUpdateVersion(newVersion, http, makedeb)
    \/ GetSingleVariable(pkgver, "ok")

SpecVer == InitRepo /\ [][NextVer]_vars

\* the value of pkgver in the PKGBUILD file
PkgverOf(f) == getSingleVariable(NewPKGBUILD, f, pkgver, "ok")

\* C29 (update-version never writes the lookup sentinel): when
\* runUpdateVersion is called without an explicit version for a package
\* whose repology name is SKIP, the pkgver of the PKGBUILD is not rewritten
\* to SKIP.
C29_NoSentinelWritten ==
    [][ ( /\ ret'.op = "runUpdateVersion"
          /\ ret'.lit = <<>>
          /\ fs.file # <<>>
          /\ getRepologyPkgname(NewPKGBUILD, fs).err = "nil"
          /\ getRepologyPkgname(NewPKGBUILD, fs).val = SKIP
          /\ PkgverOf(fs).val # SKIP )
        => PkgverOf(fs').val # SKIP
      ]_vars

\* ------------------------------------------------------------------------
\* Termination of doParallel
\* ------------------------------------------------------------------------

\* The goroutine of doParallel and every worker goroutine are scheduled
\* again and again, and every work(k) that was called returns.
FairPar ==
    /\ WF_vars(LoopAcquire)
    /\ WF_vars(LoopExit)
    /\ WF_vars(WaitAll)
    /\ \A k \in 0..(MaxTotal - 1) :
          /\ WF_vars(WorkStart(k))
          /\ WF_vars(\E e \in {"nil", "err"} : WorkReturn(k, e))
          /\ WF_vars(Release(k))

SpecParLive == InitPar /\ [][NextPar]_vars /\ FairPar

\* C30 (doParallel terminates): for every totalIterations >= 0 and
\* maxConcurrency >= 1, under fair scheduling and with every work(i)
\* returning, a doParallel that was entered returns.
C30_Terminates == (par.pc = "loop") ~> (par.pc = "done")

\* doParallel has returned after a run whose dispatch loop had to wait for
\* a worker to release the semaphore
C30_Witness ==
    /\ par.pc = "done"
    /\ par.total > par.maxConcurrency
    /\ \A k \in Items(par.total) : par.g[k] = "done"

====
